---------------------------- MODULE Spec2Model ----------------------------
(***************************************************************************)
(* A model of pulse-server (NateTheDev1/pulse-server): the route table,    *)
(* the pattern matcher, the request listener's route resolution, the       *)
(* continuation-driven middleware chain with its built-in stages, and the  *)
(* rate limiter's store.  The class PulseServer is modelled from its most  *)
(* complete revision; matchRoute from src/src/route.ts.                    *)
(*                                                                         *)
(* JavaScript strings are modelled as sequences of one-character strings,  *)
(* so that concatenation (apiVersion + path), split('/'), startsWith(':'), *)
(* slice(1) and includes() are computed and not assumed.                   *)
(***************************************************************************)
EXTENDS Integers, Sequences, FiniteSets, TLC

VARIABLES
    config,      \* this.config: apiVersion, rateLimit, ipGateMethod, ...
    routes,      \* this.routes, an object with ordered keys
    middleware,  \* this.middleware, the global chain
    blacklist,   \* this.blacklist
    whitelist,   \* this.whitelist
    reqs,        \* the requests received so far, by arrival number
    store,       \* PulseDB.rateLimitingDatastore: the records {ip, date}
    now,         \* Date.now()
    mPattern,    \* matcher harness: the PulseRoutePattern under test
    mPath,       \* matcher harness: the urlPath under test
    mResult,     \* matcher harness: what matchRoute returned
    payload,     \* responder harness: the data handed to res.send/paginate
    pagination,  \* responder harness: the options handed to res.paginate
    response,    \* responder harness: the http.ServerResponse
    connections, \* this.connections and wsClient.clients, by connection
    inbound,     \* the 'message' events handled: their number, the latest
    outbound,    \* the calls of the two broadcasts so far, in order
    builders,    \* the route builders handed out: the path each one holds
    devices,     \* PulseDB.deviceDatastore and the device calls made on it
    context,     \* this.context
    contextFn    \* this.contextFn

vars == <<config, routes, middleware, blacklist, whitelist, reqs, store,
          now, mPattern, mPath, mResult, payload, pagination, response,
          connections, inbound, outbound, builders, devices, context,
          contextFn>>

httpVars == <<config, routes, middleware, blacklist, whitelist, reqs, store,
              now>>

matchVars == <<mPattern, mPath, mResult>>

sendVars == <<payload, pagination, response>>

socketVars == <<connections, inbound, outbound>>

builderVars == <<builders>>

authVars == <<devices>>

contextVars == <<context, contextFn>>

-----------------------------------------------------------------------------
(* Strings *)

SLASH == "/"
COLON == ":"

\* s.startsWith(p)
StartsWith(s, p) ==
    /\ Len(s) >= Len(p)
    /\ \A i \in 1..Len(p) : s[i] = p[i]

\* s.slice(1)
Slice1(s) == IF Len(s) = 0 THEN <<>> ELSE SubSeq(s, 2, Len(s))

\* s.includes(sub)
Includes(s, sub) ==
    \E i \in 0..(Len(s) - Len(sub)) :
        \A j \in 1..Len(sub) : s[i + j] = sub[j]

\* s.split('/'): the maximal '/'-free pieces, in order; "" yields [""]
RECURSIVE SplitFrom(_, _, _, _)
SplitFrom(s, i, piece, acc) ==
    IF i > Len(s) THEN Append(acc, piece)
    ELSE IF s[i] = SLASH THEN SplitFrom(s, i + 1, <<>>, Append(acc, piece))
    ELSE SplitFrom(s, i + 1, Append(piece, s[i]), acc)

Split(s) == SplitFrom(s, 1, <<>>, <<>>)

\* segs.join('/'), used to build the inputs
RECURSIVE Join(_)
Join(segs) ==
    IF Len(segs) = 0 THEN <<>>
    ELSE IF Len(segs) = 1 THEN segs[1]
    ELSE segs[1] \o <<SLASH>> \o Join(Tail(segs))

-----------------------------------------------------------------------------
(* route.ts *)

\* a value that may be undefined (or null)
Some(v) == [def |-> TRUE, val |-> v]
None == [def |-> FALSE, val |-> <<>>]

NoMatch == None

\* An object whose keys keep their insertion order: a sequence of
\* <<key, value>> pairs with distinct keys.  obj[k] = v replaces the value
\* of an existing key in place and appends a new key.
Has(obj, k) == \E i \in 1..Len(obj) : obj[i][1] = k

Get(obj, k) == obj[CHOOSE i \in 1..Len(obj) : obj[i][1] = k][2]

\* an assignment that leaves the value of an existing key alone
PutKeepsFirst(obj, k, v) ==
    IF Has(obj, k) THEN obj ELSE Append(obj, <<k, v>>)

Put(obj, k, v) ==
    IF Has(obj, k)
    THEN [i \in 1..Len(obj) |-> IF obj[i][1] = k THEN <<k, v>> ELSE obj[i]]
    ELSE Append(obj, <<k, v>>)

\* { ...a, ...b }
RECURSIVE Spread(_, _)
Spread(a, b) ==
    IF Len(b) = 0 THEN a ELSE Spread(Put(a, b[1][1], b[1][2]), Tail(b))

Keys(obj) == {obj[i][1] : i \in 1..Len(obj)}

\* obj[k], which is undefined for a key obj does not have
Lookup(obj, k) == IF Has(obj, k) THEN Some(Get(obj, k)) ELSE None

\* the loop of matchRoute over the segments i..n, params being the
\* bindings made so far
RECURSIVE MatchFrom(_, _, _, _)
MatchFrom(segments, urlSegments, i, params) ==
    IF i > Len(segments) THEN Some(params)
    ELSE IF StartsWith(segments[i], <<COLON>>)
         THEN MatchFrom(segments, urlSegments, i + 1,
                        Put(params, Slice1(segments[i]), urlSegments[i]))
         ELSE IF segments[i] # urlSegments[i] THEN NoMatch
         ELSE MatchFrom(segments, urlSegments, i + 1, params)

matchRoute(pattern, urlPath) ==
    LET urlSegments == Split(urlPath)
    IN  IF Len(pattern.segments) # Len(urlSegments) THEN NoMatch
        ELSE MatchFrom(pattern.segments, urlSegments, 1, <<>>)

PulseRoutePattern(versionedPath) ==
    [original |-> versionedPath, segments |-> Split(versionedPath)]

-----------------------------------------------------------------------------
(* server: values *)

Undefined == "undefined"

\* the file names the request listener hands to handleDashboardStatics
AppCss == <<"a", "p", "p", ".", "c", "s", "s">>
AppJs == <<"a", "p", "p", ".", "j", "s">>
FaviconIco == <<"f", "a", "v", "i", "c", "o", "n", ".", "i", "c", "o">>
LogoBothSvg ==
    <<"l", "o", "g", "o", "_", "b", "o", "t", "h", ".", "s", "v", "g">>

EndsWith(s, p) ==
    /\ Len(s) >= Len(p)
    /\ \A i \in 1..Len(p) : s[Len(s) - Len(p) + i] = p[i]

\* the handlers of a chain: the built-in stages, the middleware the user
\* adds with use(), the handlers of the registrations, the fallback
Builtin(name) == [kind |-> name, id |-> 0, does |-> ""]
loggerMiddleware == Builtin("logger")
rateLimitMiddleware == Builtin("rateLimit")
paramMiddleware == Builtin("param")
jsonMiddleware == Builtin("json")
bufferMiddleware == Builtin("buffer")
textMiddleware == Builtin("text")
validateParamsMiddleware == Builtin("validateParams")
ipGateMiddleware == Builtin("ipGate")
routeFallback == Builtin("fallback")
RouteHandler(n) == [kind |-> "route", id |-> n, does |-> ""]

\* the n-th middleware the user adds: one that calls next() ("next"), one
\* that ends the response with a status of its own ("end"), or one that
\* returns having done neither ("return")
UserMiddleware(n, does) == [kind |-> "user", id |-> n, does |-> does]

NoHandler == Builtin("null")

\* a falsy string: '' (an option that is not given is modelled as '',
\* which the code does not tell from undefined)
Falsy(s) == s = <<>>

-----------------------------------------------------------------------------
(* server: constructor *)

\* the config the constructor builds from the one it is given
Config(apiVersion, usePulseLogger, rateLimitEnabled, maxRequests, timeMs, disableParamMiddleware, bodyFormat, ipGateMethod) ==
    [apiVersion |-> apiVersion,
     usePulseLogger |-> usePulseLogger,
     rateLimit |-> [enabled |-> rateLimitEnabled,
                    maxRequests |-> maxRequests,
                    timeMs |-> timeMs],
     disableParamMiddleware |-> disableParamMiddleware,
     bodyFormat |-> bodyFormat,
     ipGateMethod |-> ipGateMethod]

\* a constructor that adds the gate ahead of the validator
ConstructorMiddlewareGateFirst(c) ==
    (IF c.usePulseLogger THEN <<loggerMiddleware>> ELSE <<>>)
    \o (IF c.rateLimit.enabled THEN <<rateLimitMiddleware>> ELSE <<>>)
    \o (IF ~c.disableParamMiddleware THEN <<paramMiddleware>> ELSE <<>>)
    \o (IF c.bodyFormat = "JSON" THEN <<jsonMiddleware>>
        ELSE IF c.bodyFormat = "RAW" THEN <<bufferMiddleware>>
        ELSE IF c.bodyFormat = "TEXT" THEN <<textMiddleware>>
        ELSE <<>>)
    \o <<ipGateMiddleware>>
    \o <<validateParamsMiddleware>>

\* a constructor that adds the gate ahead of the rate limiter
ConstructorMiddlewareGateAhead(c) ==
    (IF c.usePulseLogger THEN <<loggerMiddleware>> ELSE <<>>)
    \o <<ipGateMiddleware>>
    \o (IF c.rateLimit.enabled THEN <<rateLimitMiddleware>> ELSE <<>>)
    \o (IF ~c.disableParamMiddleware THEN <<paramMiddleware>> ELSE <<>>)
    \o (IF c.bodyFormat = "JSON" THEN <<jsonMiddleware>>
        ELSE IF c.bodyFormat = "RAW" THEN <<bufferMiddleware>>
        ELSE IF c.bodyFormat = "TEXT" THEN <<textMiddleware>>
        ELSE <<>>)
    \o <<validateParamsMiddleware>>

\* the use() calls of the constructor, in its order
ConstructorMiddleware(c) ==
    (IF c.usePulseLogger THEN <<loggerMiddleware>> ELSE <<>>)
    \o (IF c.rateLimit.enabled THEN <<rateLimitMiddleware>> ELSE <<>>)
    \o (IF ~c.disableParamMiddleware THEN <<paramMiddleware>> ELSE <<>>)
    \o (IF c.bodyFormat = "JSON" THEN <<jsonMiddleware>>
        ELSE IF c.bodyFormat = "RAW" THEN <<bufferMiddleware>>
        ELSE IF c.bodyFormat = "TEXT" THEN <<textMiddleware>>
        ELSE <<>>)
    \o <<validateParamsMiddleware>>
    \o <<ipGateMiddleware>>

-----------------------------------------------------------------------------
(* server: the route table *)

\* the number of registrations made so far; the n-th registration's handler
\* is RouteHandler(n)
RECURSIVE SumLen(_)
SumLen(obj) == IF Len(obj) = 0 THEN 0 ELSE Len(obj[1][2]) + SumLen(Tail(obj))

RECURSIVE Registrations(_)
Registrations(rt) ==
    IF Len(rt) = 0 THEN 0 ELSE SumLen(rt[1][2]) + Registrations(Tail(rt))

\* addRoute: the key under which it registers
versionedPathOf(c, path, options) ==
    IF ~Falsy(options.apiVersion) THEN options.apiVersion \o path
    ELSE c.apiVersion \o path

\* addRoute: the route table after the registration
addRoute(rt, c, method, path, handler, options) ==
    LET versionedPath == versionedPathOf(c, path, options)
        pattern == PulseRoutePattern(versionedPath)
        byMethod == IF Has(rt, versionedPath) THEN Get(rt, versionedPath)
                    ELSE <<>>
        list == IF Has(byMethod, method) THEN Get(byMethod, method) ELSE <<>>
        info == [handler |-> handler, pattern |-> pattern,
                 paramRules |-> options.paramRules]
    IN  Put(rt, versionedPath, Put(byMethod, method, Append(list, info)))

-----------------------------------------------------------------------------
(* server: the request listener's route resolution *)

\* the loop over one method's registrations: a registration the matcher
\* accepts merges its parameters into req.params and ends the loop; one it
\* does not accept is selected when its original equals apiVersion + urlPath
RECURSIVE ScanInfos(_, _, _, _, _)
ScanInfos(infos, i, urlPath, apiVersion, st) ==
    IF i > Len(infos) THEN st
    ELSE
        LET routeInfo == infos[i]
            params == matchRoute(routeInfo.pattern, urlPath)
        IN  IF params.def
            THEN [st EXCEPT !.params = Some(Spread(st.params.val, params.val))]
            ELSE ScanInfos(infos, i + 1, urlPath, apiVersion,
                     IF routeInfo.pattern.original = apiVersion \o urlPath
                     THEN [st EXCEPT !.matchedHandler = routeInfo.handler]
                     ELSE st)

\* the loop over the methods of one versioned path
RECURSIVE ScanMethods(_, _, _, _, _, _)
ScanMethods(byMethod, j, method, urlPath, apiVersion, st) ==
    IF j > Len(byMethod) THEN st
    ELSE
        LET m == byMethod[j][1]
            st2 == IF m = "ALL" \/ m = method
                   THEN ScanInfos(byMethod[j][2], 1, urlPath, apiVersion, st)
                   ELSE st
        IN  IF st2.matchedHandler # NoHandler THEN st2
            ELSE ScanMethods(byMethod, j + 1, method, urlPath, apiVersion, st2)

\* the loop over the versioned paths
RECURSIVE ScanRoutes(_, _, _, _, _, _)
ScanRoutes(rt, k, method, urlPath, apiVersion, st) ==
    IF k > Len(rt) THEN st
    ELSE
        LET st2 == ScanMethods(rt[k][2], 1, method, urlPath, apiVersion, st)
        IN  IF st2.matchedHandler # NoHandler THEN st2
            ELSE ScanRoutes(rt, k + 1, method, urlPath, apiVersion, st2)

\* a resolution that expects the version 'v1' whatever the active one is
ResolveUnderV1(rt, c, method, urlPath) ==
    ScanRoutes(rt, 1, method, urlPath, <<"v", "1">>,
               [matchedHandler |-> NoHandler, params |-> None])

\* [matchedHandler, params]: the handler selected and req.params
Resolve(rt, c, method, urlPath) ==
    ScanRoutes(rt, 1, method, urlPath, c.apiVersion,
               [matchedHandler |-> NoHandler, params |-> None])

\* the test that sends a request to handleDashboardStatics
IsDashboardStatic(urlPath) ==
    \/ Includes(urlPath, AppCss)
    \/ Includes(urlPath, AppJs)
    \/ Includes(urlPath, FaviconIco)
    \/ Includes(urlPath, LogoBothSvg)

-----------------------------------------------------------------------------
(* server: the built-in stages *)

\* validateParamType: a value is a string (a path segment) or undefined
validateParamType(value, expectedType) ==
    CASE expectedType = "string" -> value.def
      [] expectedType = "number" -> FALSE
      [] expectedType = "boolean" -> FALSE
      [] expectedType = "array" -> FALSE
      [] expectedType = "object" -> FALSE
      [] expectedType = "any" -> TRUE
      [] OTHER -> FALSE

\* the loop over the entries of one registration's paramRules: the name of
\* the first parameter whose value fails its rule, if any
RECURSIVE FirstInvalidRule(_, _, _)
FirstInvalidRule(rules, i, params) ==
    IF i > Len(rules) THEN None
    ELSE IF ~validateParamType(Lookup(params, rules[i][1]), rules[i][2])
         THEN Some(rules[i][1])
         ELSE FirstInvalidRule(rules, i + 1, params)

RECURSIVE ValidateInfos(_, _, _)
ValidateInfos(infos, i, urlPath) ==
    IF i > Len(infos) THEN None
    ELSE
        LET routeInfo == infos[i]
            params == matchRoute(routeInfo.pattern, urlPath)
            bad == IF params.def /\ routeInfo.paramRules.def
                   THEN FirstInvalidRule(routeInfo.paramRules.val, 1,
                                         params.val)
                   ELSE None
        IN  IF bad.def THEN bad ELSE ValidateInfos(infos, i + 1, urlPath)

\* a loop over the methods that also takes the registrations under ALL
RECURSIVE ValidateMethodsAndAll(_, _, _, _)
ValidateMethodsAndAll(byMethod, j, method, urlPath) ==
    IF j > Len(byMethod) THEN None
    ELSE
        LET bad == IF byMethod[j][1] = method \/ byMethod[j][1] = "ALL"
                   THEN ValidateInfos(byMethod[j][2], 1, urlPath)
                   ELSE None
        IN  IF bad.def THEN bad
            ELSE ValidateMethodsAndAll(byMethod, j + 1, method, urlPath)

RECURSIVE ValidateMethods(_, _, _, _)
ValidateMethods(byMethod, j, method, urlPath) ==
    IF j > Len(byMethod) THEN None
    ELSE
        LET bad == IF byMethod[j][1] = method
                   THEN ValidateInfos(byMethod[j][2], 1, urlPath)
                   ELSE None
        IN  IF bad.def THEN bad
            ELSE ValidateMethods(byMethod, j + 1, method, urlPath)

RECURSIVE ValidateRoutes(_, _, _, _)
ValidateRoutes(rt, k, method, urlPath) ==
    IF k > Len(rt) THEN None
    ELSE
        LET bad == ValidateMethods(rt[k][2], 1, method, urlPath)
        IN  IF bad.def THEN bad ELSE ValidateRoutes(rt, k + 1, method, urlPath)

\* validateParamsMiddleware: the parameter it rejects the request for, if any
InvalidParam(rt, method, urlPath) == ValidateRoutes(rt, 1, method, urlPath)

\* an identity that is the transport's remote address alone
ClientIpRemoteOnly(r) == r.remote

\* req.headers['x-forwarded-for'] || req.connection.remoteAddress: a header
\* that is absent, or present with the empty value, is falsy
ClientIp(r) ==
    IF r.fwd # Undefined /\ r.fwd # "" THEN r.fwd ELSE r.remote

\* a whitelist mode that also turns away the addresses of the blacklist
GateOutcomeBothLists(c, bl, wl, r) ==
    IF c.ipGateMethod = "BLACKLIST"
    THEN IF ClientIp(r) = Undefined THEN "return"
         ELSE IF ClientIp(r) \in bl THEN "401" ELSE "next"
    ELSE IF c.ipGateMethod = "WHITELIST"
    THEN IF ClientIp(r) = Undefined THEN "return"
         ELSE IF ClientIp(r) \in wl /\ ClientIp(r) \notin bl THEN "next"
         ELSE "401"
    ELSE "next"

\* the outcome of ipGateMiddleware: "next", "401", or "return" (neither)
GateOutcome(c, bl, wl, r) ==
    IF c.ipGateMethod = "BLACKLIST"
    THEN IF ClientIp(r) = Undefined THEN "return"
         ELSE IF ClientIp(r) \in bl THEN "401" ELSE "next"
    ELSE IF c.ipGateMethod = "WHITELIST"
    THEN IF ClientIp(r) = Undefined THEN "return"
         ELSE IF ClientIp(r) \in wl THEN "next" ELSE "401"
    ELSE "next"

\* a find that also returns the documents dated exactly since
FoundInclusive(st, ip, since) ==
    {i \in 1..Len(st) : st[i].ip = ip /\ st[i].date >= since}

\* the documents of find({ ip, date: { $gt: since } })
Found(st, ip, since) ==
    {i \in 1..Len(st) : st[i].ip = ip /\ st[i].date > since}

-----------------------------------------------------------------------------
(* server: requests *)

\* a response body: a fixed text, followed by a parameter name
\* ('Invalid param type for ' + paramName) or, for a registration's
\* handler, identified by the registration's number
Body(text, arg) == [text |-> text, arg |-> arg, id |-> 0]
HandlerBody(n) == [text |-> "handler", arg |-> <<>>, id |-> n]
NoBody == Body("", <<>>)

\* res.statusCode = status; res.end(body)
End(r, status, body) ==
    IF r.res.ended THEN r
    ELSE [r EXCEPT !.res = [ended |-> TRUE, statusCode |-> status,
                            body |-> body]]

\* the request as the listener receives it
NewRequest(method, urlPath, query, fwd, remote) ==
    [method |-> method, url |-> urlPath, query |-> query,
     fwd |-> fwd, remote |-> remote,
     params |-> None,        \* req.params
     chain |-> <<>>,         \* the handlers handed to handle()
     handlers |-> <<>>,      \* what is left of them
     trace |-> <<>>,         \* the handlers invoked so far, in order
     conts |-> <<>>,         \* conts[k]: trace[k] has called next()
     pc |-> "idle",
     res |-> [ended |-> FALSE, statusCode |-> 200, body |-> NoBody],
     seen |-> None,          \* req.params as the route handler read it
     since |-> 0,            \* the rate limiter's Date.now() - TIME_FRAME
     doc |-> [ip |-> Undefined, date |-> 0],  \* the record to insert
     finds |-> 0,            \* store lookups issued
     inserts |-> 0,          \* store inserts issued
     alone |-> TRUE,         \* it arrived with no other request in flight
     version |-> <<>>,       \* config.apiVersion when the request arrived
     nregs |-> 0]            \* the registrations made before it arrived

\* handle(): the queue is the chain
handle(r, handlers) ==
    [r EXCEPT !.chain = handlers, !.handlers = handlers, !.pc = "run"]

\* the request listener, up to the first next()
Listener(rt, c, mw, r) ==
    IF IsDashboardStatic(r.url)
    THEN [r EXCEPT !.pc = "statics", !.version = c.apiVersion,
                   !.nregs = Registrations(rt)]
    ELSE
        LET found == Resolve(rt, c, r.method, r.url)
            handler == IF found.matchedHandler # NoHandler
                       THEN <<found.matchedHandler>>
                       ELSE <<routeFallback>>
        IN  handle([r EXCEPT !.params = found.params,
                             !.version = c.apiVersion,
                             !.nregs = Registrations(rt)],
                   mw \o handler)

\* trace[Len(trace)] calls next()
CallNext(r) ==
    [r EXCEPT !.conts[Len(r.trace)] = TRUE, !.pc = "run"]

\* the handler returns without calling next()
Return(r) == [r EXCEPT !.pc = "idle"]

\* next() with the request's queue: shift it and mark the handler invoked
Shift(r) ==
    [r EXCEPT !.handlers = Tail(r.handlers),
              !.trace = Append(r.trace, Head(r.handlers)),
              !.conts = Append(r.conts, FALSE)]

\* a paramMiddleware that adds the query's parameters to req.params
ParamStageMerges(r) ==
    CallNext(IF r.query.def
             THEN [r EXCEPT !.params =
                      Some(Spread(IF r.params.def THEN r.params.val ELSE <<>>,
                                  r.query.val))]
             ELSE r)

\* paramMiddleware
ParamStage(r) ==
    CallNext(IF r.query.def THEN [r EXCEPT !.params = r.query] ELSE r)

\* validateParamsMiddleware
ValidateStage(rt, r) ==
    LET bad == InvalidParam(rt, r.method, r.url)
    IN  IF bad.def
        THEN Return(End(r, 400, Body("Invalid param type for ", bad.val)))
        ELSE CallNext(r)

\* a gate that goes on to next() after it has answered 401
GateStageDeniesAndContinues(c, bl, wl, r) ==
    LET o == GateOutcome(c, bl, wl, r)
    IN  IF o = "next" THEN CallNext(r)
        ELSE IF o = "401"
        THEN CallNext(End(r, 401, Body("Unauthorized", <<>>)))
        ELSE Return(r)

\* ipGateMiddleware
GateStage(c, bl, wl, r) ==
    LET o == GateOutcome(c, bl, wl, r)
    IN  IF o = "next" THEN CallNext(r)
        ELSE IF o = "401" THEN Return(End(r, 401, Body("Unauthorized", <<>>)))
        ELSE Return(r)

\* rateLimitMiddleware, up to the find it issues
RateLimitStage(c, t, r) ==
    [r EXCEPT !.pc = "find", !.since = t - c.rateLimit.timeMs,
              !.finds = @ + 1]

\* a registration's handler: it reads req.params and ends the response
RouteStage(r) ==
    Return(End([r EXCEPT !.seen = r.params], 200,
               HandlerBody(r.trace[Len(r.trace)].id)))

\* a fallback that answers Not Found
FallbackAnswers404(r) == Return(End(r, 404, Body("Not Found", <<>>)))

\* routeFallback
FallbackStage(r) == Return(End(r, 400, Body("Bad Request", <<>>)))

\* a middleware of the user
UserStage(r) ==
    LET does == r.trace[Len(r.trace)].does
    IN  CASE does = "next" -> CallNext(r)
          [] does = "end" -> Return(End(r, 403, Body("Forbidden", <<>>)))
          [] OTHER -> Return(r)

\* the body parsers, up to the read of the request's body
BodyParserStage(r) == [r EXCEPT !.pc = "body"]

\* what next() does with the handler it has shifted off the queue
Stage(rt, c, bl, wl, t, r) ==
    LET k == r.trace[Len(r.trace)].kind
    IN  CASE k = "logger" -> CallNext(r)
          [] k = "rateLimit" -> RateLimitStage(c, t, r)
          [] k = "param" -> ParamStage(r)
          [] k \in {"json", "buffer", "text"} -> BodyParserStage(r)
          [] k = "validateParams" -> ValidateStage(rt, r)
          [] k = "ipGate" -> GateStage(c, bl, wl, r)
          [] k = "user" -> UserStage(r)
          [] k = "route" -> RouteStage(r)
          [] k = "fallback" -> FallbackStage(r)

\* a handle() that invokes the handlers one after the other, whether or
\* not they call next()
RECURSIVE RunAllHandlers(_, _, _, _, _, _)
RunAllHandlers(rt, c, bl, wl, t, r) ==
    IF r.handlers = <<>> THEN r
    ELSE RunAllHandlers(rt, c, bl, wl, t, Stage(rt, c, bl, wl, t, Shift(r)))

\* next(), and the next() calls of the handlers it invokes, until a handler
\* returns without calling it, waits for a callback, or the queue is empty
RECURSIVE Run(_, _, _, _, _, _)
Run(rt, c, bl, wl, t, r) ==
    IF r.pc # "run" THEN r
    ELSE IF r.handlers = <<>> THEN Return(r)
    ELSE Run(rt, c, bl, wl, t, Stage(rt, c, bl, wl, t, Shift(r)))

-----------------------------------------------------------------------------
(* server: operations; each is one turn of the event loop *)

\* get/post/put/delete/all(path, handler, options)
Register(method, path, apiVersion, paramRules) ==
    /\ routes' = addRoute(routes, config, method, path,
                          RouteHandler(Registrations(routes) + 1),
                          [apiVersion |-> apiVersion,
                           paramRules |-> paramRules])
    /\ UNCHANGED <<config, middleware, blacklist, whitelist, reqs, store,
                   now>>

\* a setAPIVersion that moves the registered routes under the new version
setAPIVersionRekeys(version) ==
    /\ config' = [config EXCEPT !.apiVersion = version]
    /\ routes' = [k \in 1..Len(routes) |->
                      <<version \o SubSeq(routes[k][1],
                                          Len(config.apiVersion) + 1,
                                          Len(routes[k][1])),
                        routes[k][2]>>]
    /\ UNCHANGED <<middleware, blacklist, whitelist, reqs, store, now>>

setAPIVersion(version) ==
    /\ config' = [config EXCEPT !.apiVersion = version]
    /\ UNCHANGED <<routes, middleware, blacklist, whitelist, reqs, store,
                   now>>

\* the user middleware added so far
UserCount(mw) == Cardinality({i \in 1..Len(mw) : mw[i].kind = "user"})

\* a use() that puts the handler in front of the list
usePrepends(handler) ==
    /\ middleware' = <<handler>> \o middleware
    /\ UNCHANGED <<config, routes, blacklist, whitelist, reqs, store, now>>

use(handler) ==
    /\ middleware' = Append(middleware, handler)
    /\ UNCHANGED <<config, routes, blacklist, whitelist, reqs, store, now>>

\* setParser(type): use() of the parser of the type, if it is one
setParser(type) ==
    /\ middleware' =
           middleware \o (IF type = "JSON" THEN <<jsonMiddleware>>
                          ELSE IF type = "RAW" THEN <<bufferMiddleware>>
                          ELSE IF type = "TEXT" THEN <<textMiddleware>>
                          ELSE <<>>)
    /\ UNCHANGED <<config, routes, blacklist, whitelist, reqs, store, now>>

blackListUser(identity) ==
    /\ blacklist' = blacklist \cup {identity}
    /\ UNCHANGED <<config, routes, middleware, whitelist, reqs, store, now>>

whiteListUser(identity) ==
    /\ whitelist' = whitelist \cup {identity}
    /\ UNCHANGED <<config, routes, middleware, blacklist, reqs, store, now>>

\* time passes
Tick ==
    /\ now' = now + 1
    /\ UNCHANGED <<config, routes, middleware, blacklist, whitelist, reqs,
                   store>>

\* the chain of request n goes on from r
Continue(n, r) ==
    reqs' = [reqs EXCEPT
                ![n] = Run(routes, config, blacklist, whitelist, now, r)]

\* this.context as the class initializes it: { pagination: {} }
InitialContext == << <<"pagination", "{}">> >>

\* the context function: the default one logs and sets nothing; the other
\* calls setContext({ client: <the address of the request> })
ContextFns == {"default", "client"}

\* setContext(data) with the data of the context function
setContextData(fn, fwd, remote) ==
    IF fn = "client"
    THEN << <<"client", IF fwd # Undefined THEN fwd ELSE remote>> >>
    ELSE <<>>

\* the listener's first statements: this.context = {}, then the context
\* function
ContextOf(fn, fwd, remote) == setContextData(fn, fwd, remote)

\* getContext()
getContext == context

\* a listener that hands this.middleware itself to handle(), the route
\* handler pushed onto it: the shifts of the chain consume the global list
ArriveSharingList(method, urlPath, query, fwd, remote) ==
    LET r == Run(routes, config, blacklist, whitelist, now,
                 Listener(routes, config, middleware,
                          NewRequest(method, urlPath, query, fwd, remote)))
    IN  /\ reqs' = Append(reqs, r)
        /\ middleware' = r.handlers
        /\ context' = ContextOf(contextFn, fwd, remote)
        /\ UNCHANGED <<config, routes, blacklist, whitelist, store, now,
                       contextFn>>

\* a request arrives: the listener, handle() and the handlers it reaches
Arrive(method, urlPath, query, fwd, remote) ==
    /\ reqs' = Append(reqs,
                 Run(routes, config, blacklist, whitelist, now,
                     Listener(routes, config, middleware,
                              [NewRequest(method, urlPath, query, fwd,
                                          remote)
                                  EXCEPT !.alone =
                                      \A m \in 1..Len(reqs) :
                                          reqs[m].pc = "idle"])))
    /\ context' = ContextOf(contextFn, fwd, remote)
    /\ UNCHANGED <<config, routes, middleware, blacklist, whitelist, store,
                   now, contextFn>>

\* a find callback that stores the request before it counts
FindDoneStoresFirst(n, err) ==
    /\ n \in 1..Len(reqs)
    /\ reqs[n].pc = "find"
    /\ LET r == reqs[n]
           docs == Found(store, ClientIp(r), r.since)
       IN  /\ Continue(n,
                 IF err
                 THEN Return(End(r, 500, Body("Internal Server Error", <<>>)))
                 ELSE IF Cardinality(docs) > config.rateLimit.maxRequests
                 THEN Return(End(r, 429, Body("Rate limit exceeded", <<>>)))
                 ELSE [r EXCEPT !.pc = "insert",
                                !.doc = [ip |-> ClientIp(r), date |-> now],
                                !.inserts = @ + 1])
           /\ store' = IF err THEN store
                       ELSE Append(store, [ip |-> ClientIp(r), date |-> now])
    /\ UNCHANGED <<config, routes, middleware, blacklist, whitelist, now>>

\* the callback of the rate limiter's find: an error, too many documents,
\* or the insert
FindDone(n, err) ==
    /\ n \in 1..Len(reqs)
    /\ reqs[n].pc = "find"
    /\ LET r == reqs[n]
           docs == Found(store, ClientIp(r), r.since)
       IN  Continue(n,
             IF err
             THEN Return(End(r, 500, Body("Internal Server Error", <<>>)))
             ELSE IF Cardinality(docs) > config.rateLimit.maxRequests
             THEN Return(End(r, 429, Body("Rate limit exceeded", <<>>)))
             ELSE [r EXCEPT !.pc = "insert",
                            !.doc = [ip |-> ClientIp(r), date |-> now],
                            !.inserts = @ + 1])
    /\ UNCHANGED <<config, routes, middleware, blacklist, whitelist, store,
                   now>>

\* the callback of the rate limiter's insert: an error, or the record is
\* stored and next()
InsertDone(n, err) ==
    /\ n \in 1..Len(reqs)
    /\ reqs[n].pc = "insert"
    /\ IF err
       THEN /\ Continue(n, Return(End(reqs[n], 500,
                                      Body("Internal Server Error", <<>>))))
            /\ UNCHANGED store
       ELSE /\ store' = Append(store, reqs[n].doc)
            /\ Continue(n, CallNext(reqs[n]))
    /\ UNCHANGED <<config, routes, middleware, blacklist, whitelist, now>>

\* the callback of the body parser: an error, or next()
BodyDone(n, err) ==
    /\ n \in 1..Len(reqs)
    /\ reqs[n].pc = "body"
    /\ Continue(n, IF err
                   THEN Return(End(reqs[n], 500,
                                   Body("Internal Server Error", <<>>)))
                   ELSE CallNext(reqs[n]))
    /\ UNCHANGED <<config, routes, middleware, blacklist, whitelist, store,
                   now>>

\* handleDashboardStatics, once fs.exists has answered
StaticsDone(n, exists) ==
    /\ n \in 1..Len(reqs)
    /\ reqs[n].pc = "statics"
    /\ LET r == reqs[n]
           served == \/ EndsWith(r.url, <<".", "j", "s">>)
                     \/ EndsWith(r.url, <<".", "c", "s", "s">>)
                     \/ EndsWith(r.url, <<".", "s", "v", "g">>)
       IN  Continue(n,
             IF ~exists
             THEN Return(End(r, 404, Body("404 Not Found", <<>>)))
             ELSE IF served THEN Return(End(r, 200, Body("file", <<>>)))
             ELSE Return(r))
    /\ UNCHANGED <<config, routes, middleware, blacklist, whitelist, store,
                   now>>

-----------------------------------------------------------------------------
(* Inputs and bounds *)

MaxRoutes == 2      \* registrations made
MaxReqs == 1        \* requests received
MaxUse == 2         \* middleware added with use()
MaxSegs == 3        \* segments of a template or path given to matchRoute
MaxRateReqs == 3    \* requests received (SpecRate)
MaxTime == 2        \* the clock stops here
MaxWindowReqs == 2  \* requests received (SpecWindow)
MaxStored == 2      \* records the store holds from an earlier run
MaxSetParser == 1   \* calls of setParser()
MaxChars == 2       \* characters of a string handed to res.send
MaxBytes == 2       \* bytes of a buffer handed to res.send
MaxItems == 3       \* items of an array handed to res.send or res.paginate
MaxLimit == 2       \* options.limit of res.paginate
MaxPage == 3        \* options.page of res.paginate
MaxConns == 2       \* WebSocket connections accepted
MaxInbound == 2     \* 'message' events handled
MaxOutbound == 1    \* calls of the two broadcasts

EmptyStr == <<>>
V1 == <<"v", "1">>
V2 == <<"v", "2">>
Id == <<"i", "d">>
PathTest == <<"/", "t", "e", "s", "t">>
PathLoginId == <<"/", "l", "o", "g", "i", "n", "/", ":", "i", "d">>
PathLogin42 == <<"/", "l", "o", "g", "i", "n", "/", "4", "2">>
PathAppJs == <<"/", "a", "p", "p", ".", "j", "s">>

Versions == {EmptyStr, V1, V2}

\* what is registered: a path and its paramRules
Declarations ==
    {[path |-> PathTest, paramRules |-> None],
     [path |-> PathLoginId, paramRules |-> Some(<< <<Id, "number">> >>)],
     [path |-> PathAppJs, paramRules |-> None]}

\* what is requested: a method and a path
Requests ==
    {[method |-> "GET", url |-> PathTest],
     [method |-> "POST", url |-> PathTest],
     [method |-> "GET", url |-> PathLogin42],
     [method |-> "GET", url |-> PathAppJs]}

-----------------------------------------------------------------------------
(* Spec: registration, versions and dispatch, with the constructor's       *)
(* default configuration and a configured apiVersion                       *)

TypicalMaxRequests == 100
TypicalTimeMs == 36000

DefaultConfig(apiVersion) ==
    Config(apiVersion, TRUE, FALSE, TypicalMaxRequests, TypicalTimeMs, FALSE,
           "UNSET", "NONE")

Constructed(c) ==
    /\ config = c
    /\ routes = <<>>
    /\ middleware = ConstructorMiddleware(c)
    /\ blacklist = {}
    /\ whitelist = {}
    /\ reqs = <<>>
    /\ store = <<>>
    /\ now = 0

\* matchRoute has not been called
MatcherIdle ==
    /\ mPattern = PulseRoutePattern(EmptyStr)
    /\ mPath = EmptyStr
    /\ mResult = None

\* an untouched http.ServerResponse
FreshResponse ==
    [ended |-> FALSE, statusCode |-> 200, contentType |-> None,
     body |-> None]

\* neither res.send nor res.paginate has been called
ResponderIdle ==
    /\ payload = None
    /\ pagination = None
    /\ response = FreshResponse

\* no connection has been accepted and no broadcast called
SocketsIdle ==
    /\ connections = <<>>
    /\ inbound = [count |-> 0, latest |-> None]
    /\ outbound = <<>>

\* no route builder has been kept
BuildersIdle ==
    builders = <<>>

\* the device datastore is empty and no device call has been made
DevicesIdle ==
    devices = [docs |-> <<>>, finds |-> 0, asked |-> None,
               latest |-> <<>>, calls |-> 0]

\* no request has been received and no context function has been set
ContextIdle ==
    /\ context = InitialContext
    /\ contextFn = "default"

Init ==
    /\ Constructed(DefaultConfig(V1))
    /\ MatcherIdle
    /\ ResponderIdle
    /\ SocketsIdle
    /\ BuildersIdle
    /\ DevicesIdle
    /\ ContextIdle

DoRegister ==
    /\ Registrations(routes) < MaxRoutes
    /\ \E d \in Declarations, v \in {EmptyStr, V2} :
           Register("GET", d.path, v, d.paramRules)
    /\ UNCHANGED <<matchVars, sendVars, socketVars, builderVars, authVars, contextVars>>

DoSetAPIVersion ==
    /\ \E v \in Versions : setAPIVersion(v)
    /\ UNCHANGED <<matchVars, sendVars, socketVars, builderVars, authVars, contextVars>>

DoArrive ==
    /\ Len(reqs) < MaxReqs
    /\ \E q \in Requests : Arrive(q.method, q.url, None, Undefined, "ip1")
    /\ UNCHANGED <<matchVars, sendVars, socketVars, builderVars, authVars>>

DoStatics ==
    /\ \E n \in 1..Len(reqs), exists \in BOOLEAN : StaticsDone(n, exists)
    /\ UNCHANGED <<matchVars, sendVars, socketVars, builderVars, authVars, contextVars>>

Next == DoRegister \/ DoSetAPIVersion \/ DoArrive \/ DoStatics

Spec == Init /\ [][Next]_vars

-----------------------------------------------------------------------------
(* What the claims speak of *)

\* the registrations of a route table, each with its key and method
Entries(rt) ==
    UNION {UNION {{[key |-> rt[k][1], method |-> rt[k][2][j][1],
                    info |-> rt[k][2][j][2][i]] :
                      i \in 1..Len(rt[k][2][j][2])} :
                  j \in 1..Len(rt[k][2])} :
           k \in 1..Len(rt)}

\* the registrations made before request r arrived
EntriesBefore(r) == {e \in Entries(routes) : e.info.handler.id <= r.nregs}

\* the handler the listener put at the end of r's chain; none for a
\* request it handed to handleDashboardStatics
Final(r) == IF r.chain = <<>> THEN NoHandler ELSE r.chain[Len(r.chain)]

\* the path a registration under the version active for r was made with
PathUnder(r, e) == SubSeq(e.key, Len(r.version) + 1, Len(e.key))

\* e is a registration for r's method whose template, taken without the
\* version active for r, has a named parameter and fits r's path
FitsTemplate(r, e) ==
    /\ e.method = r.method
    /\ StartsWith(e.key, r.version)
    /\ \E i \in 1..Len(Split(PathUnder(r, e))) :
           StartsWith(Split(PathUnder(r, e))[i], <<COLON>>)
    /\ matchRoute(PulseRoutePattern(PathUnder(r, e)), r.url).def

\* C1 (as claimed): a request whose method and path are those of a
\* registration made before it without an explicit apiVersion, under the
\* version still active, has that registration's handler at the end of
\* its chain.  (Explicit versions are 'v2' here, so a registration under
\* another version was made without one.)
C1_RegisteredRouteIsDispatched ==
    \A n \in 1..Len(reqs) : \A e \in EntriesBefore(reqs[n]) :
        (/\ reqs[n].version # V2
         /\ e.method = reqs[n].method
         /\ e.key = reqs[n].version \o reqs[n].url)
        => Final(reqs[n]) = e.info.handler

\* C7 (as claimed): a request that fits a registered named-parameter
\* template is dispatched to that registration's handler, which reads the
\* parameters bound to the raw segments
C7_TemplateRouteIsDispatched ==
    \A n \in 1..Len(reqs) : \A e \in EntriesBefore(reqs[n]) :
        (FitsTemplate(reqs[n], e) /\ reqs[n].pc = "idle")
        => /\ Final(reqs[n]) = e.info.handler
           /\ reqs[n].seen =
                matchRoute(PulseRoutePattern(PathUnder(reqs[n], e)),
                           reqs[n].url)

\* C8 (as claimed): a request that fits a registered template whose
\* paramRules ask for a number is answered 400 'Invalid param type for
\* <name>', and no registration's handler runs
C8_NumberRuleRejects ==
    \A n \in 1..Len(reqs) : \A e \in EntriesBefore(reqs[n]) :
        (/\ FitsTemplate(reqs[n], e)
         /\ e.info.paramRules = Some(<< <<Id, "number">> >>)
         /\ reqs[n].pc = "idle")
        => /\ reqs[n].res.ended
           /\ reqs[n].res.statusCode = 400
           /\ reqs[n].res.body = Body("Invalid param type for ", Id)
           /\ \A k \in 1..Len(reqs[n].trace) :
                  reqs[n].trace[k].kind # "route"

\* no registration made before r, for r's method or ALL, fits r's path
\* under the version active for r
Unregistered(r) ==
    ~\E e \in EntriesBefore(r) :
        /\ e.method \in {r.method, "ALL"}
        /\ StartsWith(e.key, r.version)
        /\ matchRoute(PulseRoutePattern(PathUnder(r, e)), r.url).def

\* the last handler invoked for r, if any
LastInvoked(r) ==
    IF r.trace = <<>> THEN NoHandler ELSE r.trace[Len(r.trace)]

BadRequest == [ended |-> TRUE, statusCode |-> 400,
               body |-> Body("Bad Request", <<>>)]

RegisteredUnder(r, v) ==
    {e \in EntriesBefore(r) : e.method = r.method /\ e.key = v \o r.url}

\* r asks, with 'v2' active, for a path registered for its method both
\* under another version and under 'v2'
AsksBothVersions(r) ==
    /\ r.version = V2
    /\ RegisteredUnder(r, V2) # {}
    /\ \E v \in Versions \ {V2} : RegisteredUnder(r, v) # {}

-----------------------------------------------------------------------------
(* SpecChain: the middleware chain, with the rate limiter, the JSON body   *)
(* parser and the blacklist enabled, middleware of the user, and two       *)
(* routes registered. The rate limiter's store is a     *)
(* file that outlives the server: it is empty, or holds a request of an    *)
(* earlier run.                                                            *)

ChainConfig(apiVersion) ==
    Config(apiVersion, TRUE, TRUE, 0, TypicalTimeMs, FALSE, "JSON",
           "BLACKLIST")

\* get('/login/:id', h1, {paramRules: {id: 'number'}}) on a server
\* constructed without a version, then setAPIVersion('v1') and
\* get('/test', h2)
ChainRoutes ==
    addRoute(addRoute(<<>>, ChainConfig(EmptyStr), "GET", PathLoginId,
                      RouteHandler(1),
                      [apiVersion |-> EmptyStr,
                       paramRules |-> Some(<< <<Id, "number">> >>)]),
             ChainConfig(V1), "GET", PathTest, RouteHandler(2),
             [apiVersion |-> EmptyStr, paramRules |-> None])

InitChain ==
    /\ config = ChainConfig(V1)
    /\ routes = ChainRoutes
    /\ middleware = ConstructorMiddleware(ChainConfig(V1))
    /\ blacklist = {}
    /\ whitelist = {}
    /\ reqs = <<>>
    /\ store \in {<<>>, <<[ip |-> "ip1", date |-> 0]>>}
    /\ now = 0
    /\ MatcherIdle
    /\ ResponderIdle
    /\ SocketsIdle
    /\ BuildersIdle
    /\ DevicesIdle
    /\ ContextIdle

DoUse ==
    /\ UserCount(middleware) < MaxUse
    /\ \E does \in {"next", "end", "return"} :
           use(UserMiddleware(UserCount(middleware) + 1, does))
    /\ UNCHANGED <<matchVars, sendVars, socketVars, builderVars, authVars, contextVars>>

DoBlackList ==
    /\ blackListUser("ip1")
    /\ UNCHANGED <<matchVars, sendVars, socketVars, builderVars, authVars, contextVars>>

DoArriveChain ==
    /\ Len(reqs) < MaxReqs
    /\ \E q \in {x \in Requests : ~IsDashboardStatic(x.url)} :
           Arrive(q.method, q.url, None, Undefined, "ip1")
    /\ UNCHANGED <<matchVars, sendVars, socketVars, builderVars, authVars>>

DoFindDone ==
    /\ \E n \in 1..Len(reqs), err \in BOOLEAN : FindDone(n, err)
    /\ UNCHANGED <<matchVars, sendVars, socketVars, builderVars, authVars, contextVars>>

DoInsertDone ==
    /\ \E n \in 1..Len(reqs), err \in BOOLEAN : InsertDone(n, err)
    /\ UNCHANGED <<matchVars, sendVars, socketVars, builderVars, authVars, contextVars>>

DoBodyDone ==
    /\ \E n \in 1..Len(reqs), err \in BOOLEAN : BodyDone(n, err)
    /\ UNCHANGED <<matchVars, sendVars, socketVars, builderVars, authVars, contextVars>>

NextChain ==
    \/ DoUse
    \/ DoBlackList
    \/ DoArriveChain
    \/ DoFindDone
    \/ DoInsertDone
    \/ DoBodyDone

SpecChain == InitChain /\ [][NextChain]_vars

-----------------------------------------------------------------------------
(* Claims about the chain, checked under SpecChain. A middleware of the    *)
(* user calls next() at most once, and synchronously.                      *)

\* the requests the listener handed to handle()
Chained == {n \in 1..Len(reqs) : reqs[n].chain # <<>>}

\* every handler invoked before the last one has called next()
EachCalledNext(r) == \A k \in 1..(Len(r.trace) - 1) : r.conts[k]

\* the user middleware of a list stand in the order of their use() calls
InUseOrder(list) ==
    \A i, j \in 1..Len(list) :
        (i < j /\ list[i].kind = "user" /\ list[j].kind = "user")
        => list[i].id < list[j].id

\* C4: the chain of a request is the middleware list in the order of the
\* use() calls, followed by the resolved route handler or the fallback; the
\* handlers are invoked in that order, handler k+1 only after handler k has
\* called next(), and so the route handler only if every middleware before
\* it has called next()
C4_ChainRunsInUseOrder ==
    \A n \in Chained :
        LET r == reqs[n]
            last == Len(r.chain)
        IN  /\ SubSeq(r.chain, 1, last - 1) = SubSeq(middleware, 1, last - 1)
            /\ InUseOrder(r.chain)
            /\ \A k \in 1..(last - 1) : r.chain[k].kind \notin {"route", "fallback"}
            /\ r.chain[last].kind \in {"route", "fallback"}
            /\ r.trace = SubSeq(r.chain, 1, Len(r.trace))
            /\ r.handlers = SubSeq(r.chain, Len(r.trace) + 1, last)
            /\ EachCalledNext(r)

\* a route handler has run behind the built-in stages and two middleware
\* of the user
C4_Witness ==
    \E n \in Chained :
        LET r == reqs[n]
        IN  /\ LastInvoked(r).kind = "route"
            /\ Cardinality({k \in 1..Len(r.trace) : r.trace[k].kind = "user"}) = 2
            /\ r.res.ended

\* the last handler invoked for r has returned without calling next(), and
\* waits for no callback
Halted(r) ==
    /\ r.trace # <<>>
    /\ r.pc = "idle"
    /\ ~r.conts[Len(r.trace)]

\* C5: once a handler of a request's chain has returned without calling
\* next(), no later handler of the chain is invoked, then or ever
C5_NoHandlerAfterHalt ==
    /\ [](\A n \in Chained : EachCalledNext(reqs[n]))
    /\ [][\A n \in Chained :
             Halted(reqs[n]) => /\ reqs'[n].trace = reqs[n].trace
                                /\ reqs'[n].handlers = reqs[n].handlers]_vars

\* a middleware of the user has returned without calling next() and
\* without answering, with handlers left in the queue
C5_Witness ==
    \E n \in Chained :
        /\ Halted(reqs[n])
        /\ LastInvoked(reqs[n]).kind = "user"
        /\ LastInvoked(reqs[n]).does = "return"
        /\ reqs[n].handlers # <<>>
        /\ ~reqs[n].res.ended

\* the built-in stages whose rejection the response of r may be
RejectedBy(r) ==
    IF ~r.res.ended THEN {}
    ELSE CASE r.res.statusCode = 429 -> {"rateLimit"}
           [] r.res.statusCode = 500 -> {"rateLimit", "json", "buffer", "text"}
           [] r.res.statusCode = 401 -> {"ipGate"}
           [] r.res.statusCode = 400
              /\ r.res.body.text = "Invalid param type for "
                -> {"validateParams"}
           [] OTHER -> {}

\* how many times a stage of one of the kinds was invoked for r
Invocations(r, kinds) ==
    Cardinality({k \in 1..Len(r.trace) : r.trace[k].kind \in kinds})

\* C6: a rejection by a built-in stage (429 and the store's 500 of the rate
\* limiter, 400 of the validator, 401 of the gate, 500 of the body parser)
\* ends the chain: the stage is the last handler invoked, it has not called
\* next(), no route handler or fallback runs, and nothing is tried again
C6_RejectionIsTerminal ==
    \A n \in Chained :
        LET r == reqs[n]
        IN  RejectedBy(r) # {}
            => /\ LastInvoked(r).kind \in RejectedBy(r)
               /\ Halted(r)
               /\ r.handlers # <<>>
               /\ Invocations(r, {"route", "fallback"}) = 0
               /\ Invocations(r, {LastInvoked(r).kind}) = 1
               /\ r.finds <= 1
               /\ r.inserts <= 1

\* the gate has answered 401 to a request the rate limiter and the body
\* parser had let through
C6_Witness ==
    \E n \in Chained :
        /\ reqs[n].res.ended
        /\ reqs[n].res.statusCode = 401
        /\ LastInvoked(reqs[n]).kind = "ipGate"
        /\ reqs[n].inserts = 1

-----------------------------------------------------------------------------
(* SpecMatch: matchRoute, called once with a template and a path drawn     *)
(* from the segments below                                                 *)

TemplateSegments ==
    {<<>>, <<"a">>, <<"A">>, <<":", "x">>, <<":", "y">>}

PathSegments == {<<>>, <<"a">>, <<"A">>, <<"4", "2">>}

\* the sequences of 1..MaxSegs elements of a set
SeqsOf(S) == UNION {[1..n -> S] : n \in 1..MaxSegs}

InitMatch ==
    /\ Constructed(DefaultConfig(EmptyStr))
    /\ \E segs \in SeqsOf(TemplateSegments) :
           mPattern = PulseRoutePattern(Join(segs))
    /\ \E segs \in SeqsOf(PathSegments) : mPath = Join(segs)
    /\ mResult = None
    /\ ResponderIdle
    /\ SocketsIdle
    /\ BuildersIdle
    /\ DevicesIdle
    /\ ContextIdle

\* the call matchRoute(mPattern, mPath)
Match ==
    /\ ~mResult.def
    /\ mResult' = Some(matchRoute(mPattern, mPath))
    /\ UNCHANGED <<mPattern, mPath>>
    /\ UNCHANGED <<httpVars, sendVars, socketVars, builderVars, authVars, contextVars>>

NextMatch == Match

SpecMatch == InitMatch /\ [][NextMatch]_vars

\* the positions of the template's ':name' segments
ParamPositions(pattern) ==
    {i \in 1..Len(pattern.segments) :
        StartsWith(pattern.segments[i], <<COLON>>)}

\* the template and the path have as many segments, and the template's
\* literal segments are the path's
Fits(pattern, urlPath) ==
    /\ Len(pattern.segments) = Len(Split(urlPath))
    /\ \A i \in 1..Len(pattern.segments) :
           i \notin ParamPositions(pattern)
           => pattern.segments[i] = Split(urlPath)[i]

\* the names of the template's ':name' segments
ParamNames(pattern) ==
    {Slice1(pattern.segments[i]) : i \in ParamPositions(pattern)}

\* C9 (as claimed): matchRoute returns a mapping exactly when the template
\* fits the path, and the mapping binds the name of each ':name' segment to
\* the path's segment at its position, and nothing else
C9_BindsEachSegment ==
    mResult.def
    => /\ mResult.val.def <=> Fits(mPattern, mPath)
       /\ mResult.val.def
          => /\ Keys(mResult.val.val) = ParamNames(mPattern)
             /\ \A i \in ParamPositions(mPattern) :
                    Lookup(mResult.val.val, Slice1(mPattern.segments[i]))
                        = Some(Split(mPath)[i])

\* the last position at which the template has the segment ':name'
LastPosition(pattern, name) ==
    CHOOSE i \in ParamPositions(pattern) :
        /\ Slice1(pattern.segments[i]) = name
        /\ \A j \in ParamPositions(pattern) :
               Slice1(pattern.segments[j]) = name => j <= i

\* C9 (amended): matchRoute returns a mapping exactly when the template fits
\* the path; the mapping binds each name of a ':name' segment to the path's
\* segment at the last position that carries the name, and nothing else
C9_BindsEachName ==
    mResult.def
    => /\ mResult.val.def <=> Fits(mPattern, mPath)
       /\ mResult.val.def
          => /\ Keys(mResult.val.val) = ParamNames(mPattern)
             /\ \A name \in ParamNames(mPattern) :
                    Lookup(mResult.val.val, name)
                        = Some(Split(mPath)[LastPosition(mPattern, name)])

\* matchRoute has bound a name that two segments of the template carry,
\* where the path's segments at the two positions differ
C9_Witness ==
    /\ mResult.def
    /\ mResult.val.def
    /\ \E i, j \in ParamPositions(mPattern) :
           /\ i < j
           /\ mPattern.segments[i] = mPattern.segments[j]
           /\ Split(mPath)[i] # Split(mPath)[j]

-----------------------------------------------------------------------------
(* SpecRate: the rate limiter with maxRequests 1 and a window of 2 ticks,  *)
(* an empty store, and requests of two addresses                           *)

RateConfig == Config(V1, FALSE, TRUE, 1, 2, TRUE, "UNSET", "NONE")

InitRate ==
    /\ config = RateConfig
    /\ routes = addRoute(<<>>, RateConfig, "GET", PathTest, RouteHandler(1),
                         [apiVersion |-> EmptyStr, paramRules |-> None])
    /\ middleware = ConstructorMiddleware(RateConfig)
    /\ blacklist = {}
    /\ whitelist = {}
    /\ reqs = <<>>
    /\ store = <<>>
    /\ now = 0
    /\ MatcherIdle
    /\ ResponderIdle
    /\ SocketsIdle
    /\ BuildersIdle
    /\ DevicesIdle
    /\ ContextIdle

DoArriveRate ==
    /\ Len(reqs) < MaxRateReqs
    /\ \E ip \in {"ip1", "ip2"} : Arrive("GET", PathTest, None, Undefined, ip)
    /\ UNCHANGED <<matchVars, sendVars, socketVars, builderVars, authVars>>

DoTick ==
    /\ now < MaxTime
    /\ Tick
    /\ UNCHANGED <<matchVars, sendVars, socketVars, builderVars, authVars, contextVars>>

NextRate ==
    \/ DoArriveRate
    \/ DoFindDone
    \/ DoInsertDone
    \/ DoTick

SpecRate == InitRate /\ [][NextRate]_vars

\* the rate limiter has called next() for r
PassedLimiter(r) ==
    \E k \in 1..Len(r.trace) : r.trace[k].kind = "rateLimit" /\ r.conts[k]

\* the rate limiter has answered r with 429
Limited(r) ==
    /\ r.res.ended
    /\ r.res.statusCode = 429
    /\ ~PassedLimiter(r)

\* the first n requests came from one address, within one window that
\* began with an empty store, each was over before another request arrived,
\* and the store answered each of them without an error
OneAtATime(n) ==
    /\ n <= Len(reqs)
    /\ now < config.rateLimit.timeMs
    /\ \A m \in 1..n :
           /\ ClientIp(reqs[m]) = ClientIp(reqs[1])
           /\ reqs[m].pc = "idle"
           /\ reqs[m].res.statusCode # 500
    /\ \A m \in 1..Len(reqs) : m <= n + 1 => reqs[m].alone

\* C10 (as claimed): with maxRequests = N, of the requests one address
\* sends one at a time within one window, requests 1..N pass the rate
\* limiter and request N+1 is answered 429
C10_RequestNPlusOneIs429 ==
    \A n \in 1..Len(reqs) :
        OneAtATime(n)
        => /\ n <= config.rateLimit.maxRequests => PassedLimiter(reqs[n])
           /\ n = config.rateLimit.maxRequests + 1 => Limited(reqs[n])

\* what the code does: requests 1..N+1 pass, and request N+2 is the first
\* that is answered 429
C10_RequestNPlusTwoIs429 ==
    \A n \in 1..Len(reqs) :
        OneAtATime(n)
        => /\ n <= config.rateLimit.maxRequests + 1 => PassedLimiter(reqs[n])
           /\ n = config.rateLimit.maxRequests + 2 => Limited(reqs[n])

\* N+2 requests of one address, one at a time: the last is answered 429
C10_Witness ==
    /\ OneAtATime(config.rateLimit.maxRequests + 2)
    /\ Limited(reqs[config.rateLimit.maxRequests + 2])

-----------------------------------------------------------------------------
(* SpecWindow: the rate limiter's window.  The store is a file that        *)
(* outlives the server: it holds up to MaxStored records of one address,   *)
(* written at time 0 by an earlier run.                                    *)

\* k records of ip1, dated 0
StoredBefore(k) == [i \in 1..k |-> [ip |-> "ip1", date |-> 0]]

InitWindow ==
    /\ config = RateConfig
    /\ routes = addRoute(<<>>, RateConfig, "GET", PathTest, RouteHandler(1),
                         [apiVersion |-> EmptyStr, paramRules |-> None])
    /\ middleware = ConstructorMiddleware(RateConfig)
    /\ blacklist = {}
    /\ whitelist = {}
    /\ reqs = <<>>
    /\ \E k \in 0..MaxStored : store = StoredBefore(k)
    /\ now = 0
    /\ MatcherIdle
    /\ ResponderIdle
    /\ SocketsIdle
    /\ BuildersIdle
    /\ DevicesIdle
    /\ ContextIdle

DoArriveWindow ==
    /\ Len(reqs) < MaxWindowReqs
    /\ \E ip \in {"ip1", "ip2"} : Arrive("GET", PathTest, None, Undefined, ip)
    /\ UNCHANGED <<matchVars, sendVars, socketVars, builderVars, authVars>>

NextWindow ==
    \/ DoArriveWindow
    \/ DoFindDone
    \/ DoInsertDone
    \/ DoTick

SpecWindow == InitWindow /\ [][NextWindow]_vars

\* when r reached the rate limiter
ArrivedAt(r) == r.since + config.rateLimit.timeMs

\* the records of r's address that are timeMs old, or older, when r arrives
Elapsed(r) ==
    {i \in 1..Len(store) :
        /\ store[i].ip = ClientIp(r)
        /\ store[i].date + config.rateLimit.timeMs <= ArrivedAt(r)}

\* the records of r's address
RecordsOf(r) == {i \in 1..Len(store) : store[i].ip = ClientIp(r)}

\* C11: only the records within the trailing window of timeMs count: when
\* the find of a request is answered and timeMs has elapsed, at the
\* request's arrival, since every record of its address, the request is
\* not answered 429 however many records there are: the rate limiter goes
\* on to record it (and passes it on unless the store fails, which is
\* answered 500)
C11_AfterWindowPasses ==
    /\ [][\A n \in 1..Len(reqs) :
             (/\ reqs[n].pc = "find"
              /\ reqs'[n].pc # "find"
              /\ RecordsOf(reqs[n]) = Elapsed(reqs[n]))
             => \/ reqs'[n].pc = "insert"
                \/ reqs'[n].res.statusCode = 500]_vars
    /\ [][\A n \in 1..Len(reqs) :
             (/\ reqs[n].pc = "insert"
              /\ reqs'[n].pc # "insert")
             => \/ PassedLimiter(reqs'[n])
                \/ reqs'[n].res.statusCode = 500]_vars

\* after a request of an address was answered 429, a later request of the
\* address has passed the rate limiter with more than maxRequests records
\* of the address in the store, all of them timeMs old
C11_Witness ==
    \E m, n \in 1..Len(reqs) :
        /\ m < n
        /\ ClientIp(reqs[m]) = ClientIp(reqs[n])
        /\ Limited(reqs[m])
        /\ PassedLimiter(reqs[n])
        /\ Cardinality(Elapsed(reqs[n])) > config.rateLimit.maxRequests

-----------------------------------------------------------------------------
(* SpecGate: the access gate in each of its modes, with addresses added    *)
(* to the two lists at any time, and requests that carry an                *)
(* x-forwarded-for header, a socket address, both or neither               *)

GateConfig(mode) ==
    Config(V1, FALSE, FALSE, TypicalMaxRequests, TypicalTimeMs, TRUE, "UNSET", mode)

InitGate ==
    /\ \E mode \in {"BLACKLIST", "WHITELIST", "NONE"} :
           Constructed(GateConfig(mode))
    /\ MatcherIdle
    /\ ResponderIdle
    /\ SocketsIdle
    /\ BuildersIdle
    /\ DevicesIdle
    /\ ContextIdle

DoBlackListAny ==
    /\ \E ip \in {"ip1", "ip2"} : blackListUser(ip)
    /\ UNCHANGED <<matchVars, sendVars, socketVars, builderVars, authVars, contextVars>>

DoWhiteListAny ==
    /\ \E ip \in {"ip1", "ip2"} : whiteListUser(ip)
    /\ UNCHANGED <<matchVars, sendVars, socketVars, builderVars, authVars, contextVars>>

DoArriveGate ==
    /\ Len(reqs) < MaxReqs
    /\ \E fwd \in {Undefined, "ip2"}, remote \in {Undefined, "ip1"} :
           Arrive("GET", PathTest, None, fwd, remote)
    /\ UNCHANGED <<matchVars, sendVars, socketVars, builderVars, authVars>>

NextGate ==
    \/ DoBlackListAny
    \/ DoWhiteListAny
    \/ DoArriveGate

SpecGate == InitGate /\ [][NextGate]_vars

\* the gate was invoked for r
GateReached(r) == \E k \in 1..Len(r.trace) : r.trace[k].kind = "ipGate"

\* the gate has called next() for r
GateCalledNext(r) ==
    \E k \in 1..Len(r.trace) : r.trace[k].kind = "ipGate" /\ r.conts[k]

\* the gate has answered r with 401 and has not called next()
GateDenied(r) ==
    /\ LastInvoked(r).kind = "ipGate"
    /\ Halted(r)
    /\ r.res.ended
    /\ r.res.statusCode = 401

\* the gate has returned without answering r and without calling next()
GateSilent(r) ==
    /\ LastInvoked(r).kind = "ipGate"
    /\ Halted(r)
    /\ ~r.res.ended

\* the outcome by mode and list membership of an address
ByMembership(ip) ==
    IF config.ipGateMethod = "BLACKLIST"
    THEN IF ip \in blacklist THEN "401" ELSE "next"
    ELSE IF config.ipGateMethod = "WHITELIST"
    THEN IF ip \in whitelist THEN "next" ELSE "401"
    ELSE "next"

-----------------------------------------------------------------------------
(* SpecOrder: the middleware list, for every configuration of the built-in *)
(* stages, with use() and setParser() called after construction            *)

OrderConfig(usePulseLogger, rateLimitEnabled, disableParamMiddleware, bodyFormat) ==
    Config(V1, usePulseLogger, rateLimitEnabled, TypicalMaxRequests, TypicalTimeMs, disableParamMiddleware, bodyFormat, "NONE")

InitOrder ==
    /\ \E l, rl, dp \in BOOLEAN, bf \in {"JSON", "RAW", "TEXT", "UNSET"} :
           Constructed(OrderConfig(l, rl, dp, bf))
    /\ MatcherIdle
    /\ ResponderIdle
    /\ SocketsIdle
    /\ BuildersIdle
    /\ DevicesIdle
    /\ ContextIdle

\* the body parsers of a list
Parsers(list) ==
    {i \in 1..Len(list) : list[i].kind \in {"json", "buffer", "text"}}

DoSetParser ==
    /\ Cardinality(Parsers(middleware))
           < MaxSetParser + Cardinality(Parsers(ConstructorMiddleware(config)))
    /\ \E type \in {"JSON", "RAW", "TEXT", "UNSET"} : setParser(type)
    /\ UNCHANGED <<matchVars, sendVars, socketVars, builderVars, authVars, contextVars>>

NextOrder ==
    \/ DoUse
    \/ DoSetParser

SpecOrder == InitOrder /\ [][NextOrder]_vars

\* the place of a stage in the order the claim gives; 7 for a middleware of
\* the user
Rank(h) ==
    CASE h.kind = "logger" -> 1
      [] h.kind = "rateLimit" -> 2
      [] h.kind = "param" -> 3
      [] h.kind \in {"json", "buffer", "text"} -> 4
      [] h.kind = "validateParams" -> 5
      [] h.kind = "ipGate" -> 6
      [] OTHER -> 7

\* the list holds a stage of one of the kinds
HasStage(list, kinds) == \E i \in 1..Len(list) : list[i].kind \in kinds

\* the kind of the body parser a format asks for
ParserKind(bodyFormat) ==
    CASE bodyFormat = "JSON" -> {"json"}
      [] bodyFormat = "RAW" -> {"buffer"}
      [] bodyFormat = "TEXT" -> {"text"}
      [] OTHER -> {}

\* the list holds the stages that c enables, and none that it disables
HoldsEnabled(list, c) ==
    /\ HasStage(list, {"logger"}) <=> c.usePulseLogger
    /\ HasStage(list, {"rateLimit"}) <=> c.rateLimit.enabled
    /\ HasStage(list, {"param"}) <=> ~c.disableParamMiddleware
    /\ \A k \in {"json", "buffer", "text"} :
           HasStage(list, {k}) <=> k \in ParserKind(c.bodyFormat)
    /\ HasStage(list, {"validateParams"})
    /\ HasStage(list, {"ipGate"})

\* the built-in stages of a list stand in the claim's order, no two of a
\* rank, ahead of every middleware of the user
Ranked(list) ==
    \A i, j \in 1..Len(list) :
        i < j => \/ Rank(list[i]) < Rank(list[j])
                 \/ Rank(list[i]) = 7 /\ Rank(list[j]) = 7

\* the built-in stages of a list
BuiltIns(list) == SelectSeq(list, LAMBDA h : Rank(h) < 7)

\* C13 (as claimed): the enabled built-in stages stand in the middleware
\* list in the order logger, rate limiter, query-parameter parser, body
\* parser (at most one), validator, gate, ahead of every middleware of the
\* user
C13_BuiltInsInOrder ==
    /\ Ranked(middleware)
    /\ HoldsEnabled(BuiltIns(middleware), config)

\* where the gate first stands in the middleware list
GateAt == CHOOSE i \in 1..Len(middleware) :
              /\ middleware[i].kind = "ipGate"
              /\ \A j \in 1..(i - 1) : middleware[j].kind # "ipGate"

\* C13 (amended): the built-in stages the configuration enables stand at
\* the head of the middleware list in the claimed order, the gate last;
\* everything behind the gate is what was added after construction, in
\* the order of the calls: the middleware of the user, and the body
\* parsers of setParser(), which come behind the gate and in addition to
\* the configured parser
C13_ConfiguredBuiltInsInOrder ==
    /\ HasStage(middleware, {"ipGate"})
    /\ Ranked(SubSeq(middleware, 1, GateAt))
    /\ HoldsEnabled(SubSeq(middleware, 1, GateAt), config)
    /\ \A i \in (GateAt + 1)..Len(middleware) :
           Rank(middleware[i]) \in {4, 7}
    /\ InUseOrder(middleware)

\* every built-in stage is enabled, and two middleware of the user and a
\* parser of setParser() were added, the parser between the two
C13_Witness ==
    /\ Len(middleware) = 9
    /\ config.usePulseLogger
    /\ config.rateLimit.enabled
    /\ ~config.disableParamMiddleware
    /\ config.bodyFormat = "JSON"
    /\ middleware[7].kind = "user"
    /\ middleware[8].kind = "text"
    /\ middleware[9].kind = "user"

-----------------------------------------------------------------------------
(* JavaScript values, JSON.stringify and the responders res.send and       *)
(* res.paginate of createPulseResponse                                     *)

JsString(chars) == [kind |-> "string", chars |-> chars]
JsNumber(n) == [kind |-> "number", num |-> n]
JsNull == [kind |-> "null"]
JsArray(items) == [kind |-> "array", items |-> items]
JsObject(props) == [kind |-> "object", props |-> props]
JsBuffer(bytes) == [kind |-> "buffer", bytes |-> bytes]
\* a property value that refers back to the object that holds it
JsCycle == [kind |-> "cycle"]
JsBoolean(b) == [kind |-> "boolean", bool |-> b]

\* typeof v
TypeOf(v) ==
    IF v.kind \in {"string", "number", "boolean"} THEN v.kind ELSE "object"

QUOTE == "\""
BACKSLASH == "\\"
Digits == <<"0", "1", "2", "3", "4", "5", "6", "7", "8", "9">>

\* String(n) of an integer
RECURSIVE NumberToString(_)
NumberToString(n) ==
    IF n < 0 THEN <<"-">> \o NumberToString(0 - n)
    ELSE IF n < 10 THEN <<Digits[n + 1]>>
    ELSE NumberToString(n \div 10) \o <<Digits[(n % 10) + 1]>>

\* the characters of a string with '"' and '\' escaped
RECURSIVE Escape(_)
Escape(chars) ==
    IF Len(chars) = 0 THEN <<>>
    ELSE (IF chars[1] \in {QUOTE, BACKSLASH} THEN <<BACKSLASH, chars[1]>>
          ELSE <<chars[1]>>) \o Escape(Tail(chars))

Quoted(chars) == <<QUOTE>> \o Escape(chars) \o <<QUOTE>>

\* JSON.stringify(v): Some(text), or None where it throws (a cycle)
RECURSIVE JSONstringify(_)
RECURSIVE StringifyItems(_, _)
RECURSIVE StringifyProps(_, _)
StringifyItems(items, i) ==
    IF i > Len(items) THEN Some(<<>>)
    ELSE LET head == JSONstringify(items[i])
             rest == StringifyItems(items, i + 1)
         IN  IF ~head.def \/ ~rest.def THEN None
             ELSE Some((IF i > 1 THEN <<",">> ELSE <<>>)
                       \o head.val \o rest.val)

StringifyProps(props, i) ==
    IF i > Len(props) THEN Some(<<>>)
    ELSE LET head == JSONstringify(props[i][2])
             rest == StringifyProps(props, i + 1)
         IN  IF ~head.def \/ ~rest.def THEN None
             ELSE Some((IF i > 1 THEN <<",">> ELSE <<>>)
                       \o Quoted(props[i][1]) \o <<":">>
                       \o head.val \o rest.val)

\* Buffer.prototype.toJSON
BufferToJSON(buffer) ==
    JsObject(<<
        <<<<"t", "y", "p", "e">>, JsString(<<"B", "u", "f", "f", "e", "r">>)>>,
        <<<<"d", "a", "t", "a">>,
          JsArray([i \in 1..Len(buffer.bytes) |-> JsNumber(buffer.bytes[i])])>> >>)

JSONstringify(v) ==
    CASE v.kind = "string" -> Some(Quoted(v.chars))
      [] v.kind = "number" -> Some(NumberToString(v.num))
      [] v.kind = "null" -> Some(<<"n", "u", "l", "l">>)
      [] v.kind = "boolean" ->
             Some(IF v.bool THEN <<"t", "r", "u", "e">>
                  ELSE <<"f", "a", "l", "s", "e">>)
      [] v.kind = "array" ->
             LET inner == StringifyItems(v.items, 1)
             IN  IF inner.def THEN Some(<<"[">> \o inner.val \o <<"]">>)
                 ELSE None
      [] v.kind = "object" ->
             LET inner == StringifyProps(v.props, 1)
             IN  IF inner.def THEN Some(<<"{">> \o inner.val \o <<"}">>)
                 ELSE None
      [] v.kind = "buffer" -> JSONstringify(BufferToJSON(v))
      [] OTHER -> None

InternalServerError ==
    JsString(<<"I", "n", "t", "e", "r", "n", "a", "l", " ", "S", "e", "r",
               "v", "e", "r", " ", "E", "r", "r", "o", "r">>)

\* res.setHeader('Content-Type', type); res.end(body)
EndAs(res, type, body) ==
    [res EXCEPT !.contentType = Some(type), !.ended = TRUE,
                !.body = Some(body)]

\* res.statusCode = 500; res.end('Internal Server Error')
EndFailed(res) ==
    [res EXCEPT !.statusCode = 500, !.ended = TRUE,
                !.body = Some(InternalServerError)]

\* a res.send that asks Buffer.isBuffer before typeof
sendBufferFirst(res, d) ==
    IF d.kind = "buffer" THEN EndAs(res, "application/octet-stream", d)
    ELSE IF TypeOf(d) = "object" \/ d.kind = "array"
    THEN LET encoded == JSONstringify(d)
         IN  IF ~encoded.def THEN EndFailed(res)
             ELSE EndAs(res, "application/json", JsString(encoded.val))
    ELSE IF TypeOf(d) = "string" THEN EndAs(res, "text/plain", d)
    ELSE res

\* res.send(data)
send(res, d) ==
    IF TypeOf(d) = "object" \/ d.kind = "array"
    THEN LET encoded == JSONstringify(d)
         IN  IF ~encoded.def THEN EndFailed(res)
             ELSE EndAs(res, "application/json", JsString(encoded.val))
    ELSE IF TypeOf(d) = "string" THEN EndAs(res, "text/plain", d)
    ELSE IF d.kind = "buffer" THEN EndAs(res, "application/octet-stream", d)
    ELSE res

\* array.slice(start, end)
Slice(items, start, end) ==
    LET len == Len(items)
        from == IF start < 0 THEN (IF len + start < 0 THEN 0 ELSE len + start)
                ELSE IF start > len THEN len ELSE start
        to == IF end < 0 THEN (IF len + end < 0 THEN 0 ELSE len + end)
              ELSE IF end > len THEN len ELSE end
    IN  SubSeq(items, from + 1, to)

KeyNext == <<"n", "e", "x", "t">>
KeyPrevious == <<"p", "r", "e", "v", "i", "o", "u", "s">>
KeyResults == <<"r", "e", "s", "u", "l", "t", "s">>
KeyPage == <<"p", "a", "g", "e">>
KeyLimit == <<"l", "i", "m", "i", "t">>

\* {page, limit}
Descriptor(page, limit) ==
    JsObject(<< <<KeyPage, JsNumber(page)>>, <<KeyLimit, JsNumber(limit)>> >>)

\* the object that res.paginate builds in results
PaginateResults(d, opts) ==
    LET limit == opts.limit
        page == opts.page
        startIndex == (page - 1) * limit
        endIndex == page * limit
        r0 == <<>>
        r1 == IF endIndex < Len(d.items)
              THEN Put(r0, KeyNext, Descriptor(page + 1, limit)) ELSE r0
        r2 == IF startIndex > 0
              THEN Put(r1, KeyPrevious, Descriptor(page - 1, limit)) ELSE r1
    IN  JsObject(Put(r2, KeyResults,
                     JsArray(Slice(d.items, startIndex, endIndex))))

\* a res.paginate that serializes the object it has built
paginateResults(res, d, opts) ==
    LET resData == JSONstringify(PaginateResults(d, opts))
    IN  IF ~resData.def THEN EndFailed(res)
        ELSE EndAs(res, "application/json", JsString(resData.val))

\* res.paginate(data, options)
paginate(res, d, opts) ==
    LET results == PaginateResults(d, opts)
        resData == JSONstringify(d)
    IN  IF ~resData.def THEN EndFailed(res)
        ELSE EndAs(res, "application/json", JsString(resData.val))

-----------------------------------------------------------------------------
(* SpecRespond: one call of res.send or res.paginate on a fresh response   *)

\* the sequences of at most n elements of a set
UpTo(S, n) == UNION {[1..k -> S] : k \in 0..n}

KeyA == <<"a">>
Strings == {JsString(chars) : chars \in UpTo({"a", QUOTE, BACKSLASH}, MaxChars)}
Buffers == {JsBuffer(bytes) : bytes \in UpTo({0, 255}, MaxBytes)}
Arrays == {JsArray(items) : items \in UpTo({JsNumber(1), JsNumber(2)}, MaxItems)}
Leaves == {JsNumber(1), JsString(<<"a">>), JsNull, JsArray(<<JsNumber(1)>>)}
PlainObjects ==
    {JsObject(<<>>)}
    \cup {JsObject(<< <<KeyA, v>> >>) : v \in Leaves}
    \cup {JsObject(<< <<KeyA, JsObject(<< <<KeyA, v>> >>)>> >>) : v \in Leaves}
    \cup {JsObject(<< <<KeyA, v>>, <<KeyNext, w>> >>) : v, w \in Leaves}
\* objects that hold a reference to themselves
CyclicObjects ==
    {JsObject(<< <<KeyA, JsCycle>> >>),
     JsObject(<< <<KeyA, JsNumber(1)>>, <<KeyNext, JsArray(<<JsCycle>>)>> >>)}
NestedArrays ==
    {JsArray(<<v>>) : v \in PlainObjects \cup Strings}
    \cup {JsArray(<<JsCycle>>)}

Payloads ==
    Strings \cup Buffers \cup Arrays \cup NestedArrays \cup PlainObjects
    \cup CyclicObjects \cup {JsNull, JsNumber(1)}

Paginations == [limit : 1..MaxLimit, page : 1..MaxPage]

InitRespond ==
    /\ Constructed(DefaultConfig(V1))
    /\ MatcherIdle
    /\ ResponderIdle
    /\ SocketsIdle
    /\ BuildersIdle
    /\ DevicesIdle
    /\ ContextIdle

\* a handler calls res.send(d)
DoSend ==
    /\ ~payload.def
    /\ \E d \in Payloads :
           /\ payload' = Some(d)
           /\ response' = send(response, d)
    /\ UNCHANGED <<pagination, httpVars, matchVars, socketVars, builderVars, authVars, contextVars>>

\* a handler calls res.paginate(d, opts)
DoPaginate ==
    /\ ~payload.def
    /\ \E d \in Arrays, opts \in Paginations :
           /\ payload' = Some(d)
           /\ pagination' = Some(opts)
           /\ response' = paginate(response, d, opts)
    /\ UNCHANGED <<httpVars, matchVars, socketVars, builderVars, authVars, contextVars>>

NextRespond ==
    \/ DoSend
    \/ DoPaginate

SpecRespond == InitRespond /\ [][NextRespond]_vars

\* res.send(payload) has been called
Sent == payload.def /\ ~pagination.def

\* res.paginate(payload, pagination) has been called
Paginated == payload.def /\ pagination.def

\* the response was ended with the content type and the body
AnsweredAs(type, body) ==
    /\ response.ended
    /\ response.statusCode = 200
    /\ response.contentType = Some(type)
    /\ response.body = Some(body)

\* a plain object or an array, as against a buffer or null
PlainOrArray(v) == v.kind \in {"object", "array"}

\* C14 (as claimed): res.send answers application/json with the JSON
\* encoding for plain objects and arrays, text/plain with the string for
\* strings, application/octet-stream with the unmodified bytes for
\* buffers, and status 500 where the JSON encoding fails
C14_SendByPayloadKind ==
    Sent =>
        LET d == payload.val
        IN  /\ ( PlainOrArray(d) /\ JSONstringify(d).def ) =>
                   AnsweredAs("application/json", JsString(JSONstringify(d).val))
            /\ ( PlainOrArray(d) /\ ~JSONstringify(d).def ) =>
                   response.ended /\ response.statusCode = 500
            /\ d.kind = "string" => AnsweredAs("text/plain", d)
            /\ d.kind = "buffer" => AnsweredAs("application/octet-stream", d)

\* C14 (what the code does): as claimed for plain objects, arrays,
\* strings and encoding failures; a buffer is answered as application/json
\* with the encoding of {type: 'Buffer', data: [...]} and never as
\* application/octet-stream
C14_SendBufferAsJson ==
    Sent =>
        LET d == payload.val
        IN  /\ ( PlainOrArray(d) /\ JSONstringify(d).def ) =>
                   AnsweredAs("application/json", JsString(JSONstringify(d).val))
            /\ ( PlainOrArray(d) /\ ~JSONstringify(d).def ) =>
                   response.ended /\ response.statusCode = 500
            /\ d.kind = "string" => AnsweredAs("text/plain", d)
            /\ d.kind = "buffer" =>
                   AnsweredAs("application/json",
                              JsString(JSONstringify(BufferToJSON(d)).val))
            /\ response.contentType # Some("application/octet-stream")

\* res.send was called with a buffer of two bytes
C14_Witness ==
    /\ Sent
    /\ payload.val = JsBuffer(<<0, 255>>)
    /\ response.ended

\* the items of the requested page: items[(page-1)*limit .. page*limit)
PageOf(items, opts) ==
    LET first == (opts.page - 1) * opts.limit + 1
        last == IF opts.page * opts.limit < Len(items)
                THEN opts.page * opts.limit ELSE Len(items)
    IN  [i \in 1..(IF last < first THEN 0 ELSE last - first + 1) |->
            items[first + i - 1]]

\* a page object: the items, with a 'next' and a 'previous' descriptor or
\* without
PageBody(items, opts, hasNext, hasPrevious) ==
    JsObject((IF hasNext
              THEN << <<KeyNext, Descriptor(opts.page + 1, opts.limit)>> >>
              ELSE <<>>)
             \o (IF hasPrevious
                 THEN << <<KeyPrevious, Descriptor(opts.page - 1, opts.limit)>> >>
                 ELSE <<>>)
             \o << <<KeyResults, JsArray(items)>> >>)

\* the response is the serialization of the value
Serializes(v) ==
    AnsweredAs("application/json", JsString(JSONstringify(v).val))

\* C15 (as claimed): res.paginate answers with a serialized body whose
\* items are exactly the requested page, items[(page-1)*limit ..
\* page*limit), and not the whole items array
C15_PaginateAnswersThePage ==
    Paginated =>
        /\ \E hasNext, hasPrevious \in BOOLEAN :
               Serializes(PageBody(PageOf(payload.val.items, pagination.val),
                                   pagination.val, hasNext, hasPrevious))
        /\ ~Serializes(payload.val)

\* C15 (what the code does): res.paginate answers with the serialization
\* of the whole items array, whatever the page
C15_PaginateAnswersWholeArray ==
    Paginated => Serializes(payload.val)

\* page 2 of three items by two was asked for
C15_Witness ==
    /\ Paginated
    /\ Len(payload.val.items) = 3
    /\ pagination.val = [limit |-> 2, page |-> 2]
    /\ response.ended

\* C16 (as claimed): the response of res.paginate carries a 'previous'
\* descriptor {page: page-1, limit} exactly when (page-1)*limit > 0 and a
\* 'next' descriptor {page: page+1, limit} exactly when page*limit <
\* items.length
C16_DescriptorsInResponse ==
    Paginated =>
        \E page \in Arrays :
            Serializes(PageBody(page.items, pagination.val,
                                pagination.val.page * pagination.val.limit
                                    < Len(payload.val.items),
                                (pagination.val.page - 1) * pagination.val.limit
                                    > 0))

\* C16 (what the code does): the body of the response is the text of an
\* array, which has no place for a descriptor
C16_ResponseIsArrayText ==
    Paginated =>
        /\ response.body.def
        /\ response.body.val.chars[1] = "["

\* page 2 of three items by one was asked for: the page has a previous
\* and a next page
C16_Witness ==
    /\ Paginated
    /\ Len(payload.val.items) = 3
    /\ pagination.val = [limit |-> 1, page |-> 2]
    /\ response.ended

-----------------------------------------------------------------------------
(* JSON.parse, for texts without white space, with the escapes \" and \\   *)
(* and with whole numbers: a recursive descent that returns the value and  *)
(* the position behind it, or fails                                        *)

Parsed(v, next) == [ok |-> TRUE, val |-> v, next |-> next]
NotParsed == [ok |-> FALSE, val |-> JsNull, next |-> 0]

\* s has the word at position i
HasWord(s, i, word) ==
    /\ i + Len(word) - 1 <= Len(s)
    /\ SubSeq(s, i, i + Len(word) - 1) = word

IsDigit(c) == \E d \in 1..10 : Digits[d] = c
DigitValue(c) == (CHOOSE d \in 1..10 : Digits[d] = c) - 1

\* the digits from position i on, as a number
RECURSIVE ParseDigits(_, _, _)
ParseDigits(s, i, n) ==
    IF i <= Len(s) /\ IsDigit(s[i])
    THEN ParseDigits(s, i + 1, 10 * n + DigitValue(s[i]))
    ELSE Parsed(JsNumber(n), i)

\* a number without fraction and exponent; no digit follows a leading 0
ParseNumber(s, i) ==
    LET negative == s[i] = "-"
        j == IF negative THEN i + 1 ELSE i
    IN  IF j > Len(s) \/ ~IsDigit(s[j]) THEN NotParsed
        ELSE IF s[j] = "0" /\ j < Len(s) /\ IsDigit(s[j + 1]) THEN NotParsed
        ELSE LET r == ParseDigits(s, j, 0)
             IN  IF negative THEN Parsed(JsNumber(0 - r.val.num), r.next)
                 ELSE r

\* the characters of a string from position i on, behind the opening quote
RECURSIVE ParseChars(_, _, _)
ParseChars(s, i, acc) ==
    IF i > Len(s) THEN NotParsed
    ELSE IF s[i] = QUOTE THEN Parsed(JsString(acc), i + 1)
    ELSE IF s[i] = BACKSLASH
         THEN IF i + 1 <= Len(s) /\ s[i + 1] \in {QUOTE, BACKSLASH}
              THEN ParseChars(s, i + 2, Append(acc, s[i + 1]))
              ELSE NotParsed
    ELSE ParseChars(s, i + 1, Append(acc, s[i]))

RECURSIVE ParseValue(_, _)
RECURSIVE ParseItems(_, _, _)
RECURSIVE ParseProps(_, _, _)
\* the items of an array from position i on, behind '[' or ','
ParseItems(s, i, acc) ==
    LET item == ParseValue(s, i)
    IN  IF ~item.ok \/ item.next > Len(s) THEN NotParsed
        ELSE IF s[item.next] = "]"
             THEN Parsed(JsArray(Append(acc, item.val)), item.next + 1)
        ELSE IF s[item.next] = ","
             THEN ParseItems(s, item.next + 1, Append(acc, item.val))
        ELSE NotParsed

\* the properties of an object from position i on, behind '{' or ','
ParseProps(s, i, acc) ==
    IF i > Len(s) \/ s[i] # QUOTE THEN NotParsed
    ELSE
        LET key == ParseChars(s, i + 1, <<>>)
        IN  IF ~key.ok \/ key.next > Len(s) \/ s[key.next] # ":"
            THEN NotParsed
            ELSE
                LET value == ParseValue(s, key.next + 1)
                    props == Put(acc, key.val.chars, value.val)
                IN  IF ~value.ok \/ value.next > Len(s) THEN NotParsed
                    ELSE IF s[value.next] = "}"
                         THEN Parsed(JsObject(props), value.next + 1)
                    ELSE IF s[value.next] = ","
                         THEN ParseProps(s, value.next + 1, props)
                    ELSE NotParsed

ParseValue(s, i) ==
    IF i > Len(s) THEN NotParsed
    ELSE IF HasWord(s, i, <<"n", "u", "l", "l">>) THEN Parsed(JsNull, i + 4)
    ELSE IF HasWord(s, i, <<"t", "r", "u", "e">>)
         THEN Parsed(JsBoolean(TRUE), i + 4)
    ELSE IF HasWord(s, i, <<"f", "a", "l", "s", "e">>)
         THEN Parsed(JsBoolean(FALSE), i + 5)
    ELSE IF s[i] = QUOTE THEN ParseChars(s, i + 1, <<>>)
    ELSE IF s[i] = "-" \/ IsDigit(s[i]) THEN ParseNumber(s, i)
    ELSE IF s[i] = "["
         THEN IF HasWord(s, i, <<"[", "]">>) THEN Parsed(JsArray(<<>>), i + 2)
              ELSE ParseItems(s, i + 1, <<>>)
    ELSE IF s[i] = "{"
         THEN IF HasWord(s, i, <<"{", "}">>) THEN Parsed(JsObject(<<>>), i + 2)
              ELSE ParseProps(s, i + 1, <<>>)
    ELSE NotParsed

\* JSON.parse(text): Some(value), or None where it throws a SyntaxError
JSONparse(text) ==
    LET r == ParseValue(text, 1)
    IN  IF r.ok /\ r.next = Len(text) + 1 THEN Some(r.val) ELSE None

-----------------------------------------------------------------------------
(* The WebSocket registry of createPulseSocket and the two broadcasts      *)

\* a connection as the 'connection' event registers it
NewConnection ==
    [readyState |-> "OPEN",
     registered |-> TRUE,    \* it is in this.connections and in wsClient.clients
     priority |-> None,      \* connection.priority
     keep |-> None,          \* connection.keep
     sent |-> <<>>,          \* the messages handed to connection.send
     control |-> None,       \* the latest control message it has sent
     closure |-> None,       \* the code and reason of its 'close' event
     closeCalls |-> <<>>]    \* the calls of onSocketCloseCB for it

KeyPriority == <<"p", "r", "i", "o", "r", "i", "t", "y">>
KeyKeep == <<"k", "e", "e", "p">>
HIGH == JsString(<<"H", "I", "G", "H">>)
LOW == JsString(<<"L", "O", "W">>)
NORMAL == JsString(<<"N", "O", "R", "M", "A", "L">>)
MEDIUM == JsString(<<"M", "E", "D", "I", "U", "M">>)

\* d[name], of a value that is not null: None for undefined
Property(d, name) ==
    IF d.kind = "object" /\ Has(d.props, name)
    THEN Some(Get(d.props, name)) ELSE None

\* a value, or undefined, as a condition
Truthy(opt) ==
    /\ opt.def
    /\ CASE opt.val.kind = "string" -> opt.val.chars # <<>>
         [] opt.val.kind = "number" -> opt.val.num # 0
         [] opt.val.kind = "boolean" -> opt.val.bool
         [] opt.val.kind = "null" -> FALSE
         [] OTHER -> TRUE

\* the handler threw before it reached the callback
Thrown(conns) == [connections |-> conns, threw |-> TRUE, called |-> <<>>]

\* a 'message' handler that takes the priority without asking for keep
onMessagePriorityAlone(conns, id, msg) ==
    LET parsed == JSONparse(msg)
    IN  IF ~parsed.def THEN Thrown(conns)
        ELSE IF parsed.val.kind = "null" THEN Thrown(conns)
        ELSE
            LET priority == Property(parsed.val, KeyPriority)
                keep == Property(parsed.val, KeyKeep)
                recognized == Truthy(priority)
                                  /\ priority.val \in {HIGH, LOW, NORMAL}
                array == Truthy(keep) /\ keep.val.kind = "array"
                c1 == IF recognized
                      THEN [conns EXCEPT ![id].priority = priority] ELSE conns
                c2 == IF recognized /\ array
                      THEN [c1 EXCEPT ![id].keep = keep] ELSE c1
            IN  [connections |-> c2, threw |-> FALSE, called |-> <<msg>>]

\* ws.on('message', ...): the connections afterwards, whether the handler
\* threw, and the calls of onSocketMessageCB
onMessage(conns, id, msg) ==
    LET parsed == JSONparse(msg)
    IN  IF ~parsed.def THEN Thrown(conns)                 \* SyntaxError
        ELSE IF parsed.val.kind = "null" THEN Thrown(conns)   \* TypeError
        ELSE
            LET priority == Property(parsed.val, KeyPriority)
                keep == Property(parsed.val, KeyKeep)
                applies == /\ Truthy(priority)
                           /\ priority.val \in {HIGH, LOW, NORMAL}
                           /\ Truthy(keep)
                           /\ keep.val.kind = "array"
            IN  [connections |->
                     IF applies
                     THEN [conns EXCEPT ![id].priority = priority,
                                        ![id].keep = keep]
                     ELSE conns,
                 threw |-> FALSE,
                 called |-> <<msg>>]

\* connection.send(message)
Send(c, message) == [c EXCEPT !.sent = Append(@, message)]

\* a sendSocketMessageAll that does not ask for the readyState
sendToEveryClient(conns, message) ==
    [i \in 1..Len(conns) |->
        IF conns[i].registered THEN Send(conns[i], message) ELSE conns[i]]

\* a sendSocketMessageAll that passes over the connections of LOW priority
sendToAllButLow(conns, message) ==
    [i \in 1..Len(conns) |->
        IF /\ conns[i].registered
           /\ conns[i].readyState = "OPEN"
           /\ conns[i].priority # Some(LOW)
        THEN Send(conns[i], message) ELSE conns[i]]

\* sendSocketMessageAll(message)
sendSocketMessageAll(conns, message) ==
    [i \in 1..Len(conns) |->
        IF conns[i].registered /\ conns[i].readyState = "OPEN"
        THEN Send(conns[i], message) ELSE conns[i]]

\* keep.includes(typeName)
KeepIncludes(keep, typeName) ==
    \E k \in 1..Len(keep.items) : keep.items[k] = JsString(typeName)

\* a pushMessageToSchemaSubscribers that sends to every connection that
\* has a keep list
pushToEveryKeeper(conns, typeName, message) ==
    [i \in 1..Len(conns) |->
        IF /\ conns[i].registered
           /\ conns[i].readyState = "OPEN"
           /\ conns[i].keep.def
        THEN Send(conns[i], message) ELSE conns[i]]

\* pushMessageToSchemaSubscribers(typeName, message)
pushMessageToSchemaSubscribers(conns, typeName, message) ==
    [i \in 1..Len(conns) |->
        IF /\ conns[i].registered
           /\ conns[i].readyState = "OPEN"
           /\ conns[i].keep.def
           /\ KeepIncludes(conns[i].keep.val, typeName)
        THEN Send(conns[i], message) ELSE conns[i]]

\* wsClient.on('connection', ...)
Connection ==
    /\ connections' = Append(connections, NewConnection)
    /\ UNCHANGED <<inbound, outbound>>

\* the closing handshake of connection id begins
Closing(id) ==
    /\ connections[id].readyState = "OPEN"
    /\ connections' = [connections EXCEPT ![id].readyState = "CLOSING"]
    /\ UNCHANGED <<inbound, outbound>>

\* a 'close' handler that calls the callback and leaves the entry
onCloseLeavesEntry(conns, id, code, reason) ==
    [conns EXCEPT ![id].closeCalls =
        Append(@, [code |-> code, reason |-> reason,
                   entry |-> conns[id].registered])]

\* a 'close' handler that deletes the entry before it calls the callback
onCloseDeletesFirst(conns, id, code, reason) ==
    LET deleted == [conns EXCEPT ![id].registered = FALSE]
    IN  [deleted EXCEPT ![id].closeCalls =
             Append(@, [code |-> code, reason |-> reason,
                        entry |-> deleted[id].registered])]

\* ws.on('close', ...): this.onSocketCloseCB(code, reason), which finds
\* the entry of the connection as it is at the call, then the delete
onClose(conns, id, code, reason) ==
    LET called == [conns EXCEPT ![id].closeCalls =
                       Append(@, [code |-> code, reason |-> reason,
                                  entry |-> conns[id].registered])]
    IN  [called EXCEPT ![id].registered = FALSE]

\* the 'close' event of connection id, which is CLOSED when it is emitted
Close(id, code, reason) ==
    /\ connections[id].readyState # "CLOSED"
    /\ connections' =
           onClose([connections EXCEPT
                       ![id].readyState = "CLOSED",
                       ![id].closure = Some([code |-> code, reason |-> reason])],
                   id, code, reason)
    /\ UNCHANGED <<inbound, outbound>>

\* a message with a priority of LOW, NORMAL or HIGH and an array-valued
\* keep
IsControl(msg) ==
    LET parsed == JSONparse(msg)
    IN  /\ parsed.def
        /\ parsed.val.kind = "object"
        /\ Has(parsed.val.props, KeyPriority)
        /\ Get(parsed.val.props, KeyPriority) \in {LOW, NORMAL, HIGH}
        /\ Has(parsed.val.props, KeyKeep)
        /\ Get(parsed.val.props, KeyKeep).kind = "array"

\* the 'message' event of connection id; what the handler did is kept,
\* and the message too if it is a control message
Message(id, msg) ==
    /\ connections[id].readyState # "CLOSED"
    /\ LET done == onMessage(connections, id, msg)
       IN  /\ connections' =
                  [done.connections EXCEPT
                      ![id].control = IF IsControl(msg) THEN Some(msg) ELSE @]
           /\ inbound' = [count |-> inbound.count + 1,
                          latest |-> Some([id |-> id, msg |-> msg,
                                           readyState |-> connections[id].readyState,
                                           threw |-> done.threw,
                                           called |-> done.called])]
    /\ UNCHANGED outbound

\* a call of sendSocketMessageAll
SendAll(message) ==
    /\ connections' = sendSocketMessageAll(connections, message)
    /\ outbound' = Append(outbound, [op |-> "sendSocketMessageAll",
                                     typeName |-> <<>>, message |-> message])
    /\ UNCHANGED inbound

\* a call of pushMessageToSchemaSubscribers
Push(typeName, message) ==
    /\ connections' =
           pushMessageToSchemaSubscribers(connections, typeName, message)
    /\ outbound' = Append(outbound, [op |-> "pushMessageToSchemaSubscribers",
                                     typeName |-> typeName,
                                     message |-> message])
    /\ UNCHANGED inbound

\* the text of a value
TextOf(v) == JSONstringify(v).val

\* {priority, keep}
ClientDoc(priority, keep) ==
    JsObject(<< <<KeyPriority, priority>>, <<KeyKeep, keep>> >>)

TopicA == <<"a">>
TopicB == <<"b">>
KeepA == JsArray(<<JsString(TopicA)>>)
KeepB == JsArray(<<JsString(TopicB)>>)

\* control messages that the handler applies
ControlTexts ==
    {TextOf(ClientDoc(HIGH, KeepA)), TextOf(ClientDoc(LOW, KeepB)),
     TextOf(ClientDoc(NORMAL, JsArray(<<>>)))}

\* messages with a field missing, an unrecognized priority or a keep that
\* is not an array
OtherDocTexts ==
    {TextOf(ClientDoc(MEDIUM, KeepB)),
     TextOf(ClientDoc(HIGH, JsString(TopicA))),
     TextOf(JsObject(<< <<KeyPriority, HIGH>> >>)),
     TextOf(JsObject(<< <<KeyKeep, KeepA>> >>))}

\* JSON values that are not objects, and a text that is not JSON
OtherTexts ==
    {TextOf(JsNull), TextOf(JsNumber(5)), TextOf(KeepA), <<"{">>}

InboundTexts == ControlTexts \cup OtherDocTexts \cup OtherTexts

\* the control messages of two subscribers, to topic a and to topic b
SubscriptionTexts ==
    {TextOf(ClientDoc(HIGH, KeepA)), TextOf(ClientDoc(LOW, KeepB))}

OutMessage == <<"m">>

InitSocket ==
    /\ Constructed(DefaultConfig(V1))
    /\ MatcherIdle
    /\ ResponderIdle
    /\ SocketsIdle
    /\ BuildersIdle
    /\ DevicesIdle
    /\ ContextIdle

DoConnection ==
    /\ Len(connections) < MaxConns
    /\ Connection
    /\ UNCHANGED <<httpVars, matchVars, sendVars, builderVars, authVars, contextVars>>

DoClosing ==
    /\ \E id \in 1..Len(connections) : Closing(id)
    /\ UNCHANGED <<httpVars, matchVars, sendVars, builderVars, authVars, contextVars>>

DoClose ==
    /\ \E id \in 1..Len(connections) : Close(id, 1000, "")
    /\ UNCHANGED <<httpVars, matchVars, sendVars, builderVars, authVars, contextVars>>

DoMessage ==
    /\ inbound.count < MaxInbound
    /\ \E id \in 1..Len(connections),
          msg \in InboundTexts :
           Message(id, msg)
    /\ UNCHANGED <<httpVars, matchVars, sendVars, builderVars, authVars, contextVars>>

DoControl ==
    /\ inbound.count < MaxInbound
    /\ \E id \in 1..Len(connections),
          msg \in SubscriptionTexts :
           Message(id, msg)
    /\ UNCHANGED <<httpVars, matchVars, sendVars, builderVars, authVars, contextVars>>

DoSendAll ==
    /\ Len(outbound) < MaxOutbound
    /\ SendAll(OutMessage)
    /\ UNCHANGED <<httpVars, matchVars, sendVars, builderVars, authVars, contextVars>>

DoPush ==
    /\ Len(outbound) < MaxOutbound
    /\ Push(TopicA, OutMessage)
    /\ UNCHANGED <<httpVars, matchVars, sendVars, builderVars, authVars, contextVars>>

\* SpecInbound: connections come and go and send messages of every kind
NextInbound ==
    \/ DoConnection
    \/ DoClosing
    \/ DoClose
    \/ DoMessage

SpecInbound == InitSocket /\ [][NextInbound]_vars

\* SpecSocket: connections come and go and subscribe, and the server
\* broadcasts
NextSocket ==
    \/ DoConnection
    \/ DoClosing
    \/ DoClose
    \/ DoControl
    \/ DoSendAll
    \/ DoPush

SpecSocket == InitSocket /\ [][NextSocket]_vars

\* the latest call of a broadcast
LatestCall == outbound[Len(outbound)]

\* this step is a call of the broadcast
Calls(op) ==
    /\ Len(outbound') = Len(outbound) + 1
    /\ outbound'[Len(outbound')].op = op

\* the keep list of a control message
KeepOf(msg) == Get(JSONparse(msg).val.props, KeyKeep)

\* the priority of a control message
PriorityOf(msg) == Get(JSONparse(msg).val.props, KeyPriority)

\* the latest control message of the connection lists the topic in keep
Subscribed(c, typeName) ==
    /\ c.control.def
    /\ \E k \in 1..Len(KeepOf(c.control.val).items) :
           KeepOf(c.control.val).items[k] = JsString(typeName)

\* C17: pushMessageToSchemaSubscribers(topic, msg) sends msg, once, to
\* exactly the connections that are Open and whose latest control message
\* lists the topic in keep; every other connection receives nothing
C17_PushReachesSubscribers ==
    [][Calls("pushMessageToSchemaSubscribers") =>
          \A i \in 1..Len(connections) :
              connections'[i].sent =
                  IF /\ connections[i].readyState = "OPEN"
                     /\ Subscribed(connections[i],
                                   outbound'[Len(outbound')].typeName)
                  THEN Append(connections[i].sent,
                              outbound'[Len(outbound')].message)
                  ELSE connections[i].sent]_vars

\* a message was pushed to topic a with two connections open: the one
\* that keeps a has received it, the one that keeps b has not
C17_Witness ==
    /\ outbound = <<[op |-> "pushMessageToSchemaSubscribers",
                     typeName |-> TopicA, message |-> OutMessage]>>
    /\ Len(connections) = 2
    /\ \A i \in 1..2 : connections[i].readyState = "OPEN"
    /\ connections[1].control = Some(TextOf(ClientDoc(HIGH, KeepA)))
    /\ connections[1].sent = <<OutMessage>>
    /\ connections[2].control = Some(TextOf(ClientDoc(LOW, KeepB)))
    /\ connections[2].sent = <<>>

\* this step handles an inbound message
Handles == inbound'.count = inbound.count + 1

C19_EveryMessageReachesCallback ==
    ( inbound.latest.def /\ inbound.latest.val.readyState = "OPEN" ) =>
        /\ inbound.latest.val.called = <<inbound.latest.val.msg>>
        /\ ~inbound.latest.val.threw

\* C19 (what the code does): a message that is JSON and not null is
\* passed unchanged to the message callback exactly once; for a message
\* that is not JSON, or is null, the handler throws and the callback is
\* not called
C19_JsonMessageReachesCallback ==
    inbound.latest.def =>
        LET e == inbound.latest.val
        IN  IF JSONparse(e.msg).def /\ JSONparse(e.msg).val # JsNull
            THEN e.called = <<e.msg>> /\ ~e.threw
            ELSE e.called = <<>> /\ e.threw

\* an Open connection has sent a text that is not JSON
C19_Witness ==
    /\ inbound.latest.def
    /\ inbound.latest.val.readyState = "OPEN"
    /\ inbound.latest.val.msg = <<"{">>

\* C20: sendSocketMessageAll(msg) sends msg, once, to exactly the
\* connections that are Open at the call; a closing or closed connection
\* receives nothing
C20_SendAllReachesOpen ==
    [][Calls("sendSocketMessageAll") =>
          \A i \in 1..Len(connections) :
              connections'[i].sent =
                  IF connections[i].readyState = "OPEN"
                  THEN Append(connections[i].sent,
                              outbound'[Len(outbound')].message)
                  ELSE connections[i].sent]_vars

\* a message was sent to all with one connection open and one closing
C20_Witness ==
    /\ outbound = <<[op |-> "sendSocketMessageAll", typeName |-> <<>>,
                     message |-> OutMessage]>>
    /\ Len(connections) = 2
    /\ connections[1].readyState = "OPEN"
    /\ connections[1].sent = <<OutMessage>>
    /\ connections[2].readyState = "CLOSING"
    /\ connections[2].sent = <<>>

-----------------------------------------------------------------------------
(* SpecClose: connections subscribe and close with a code and a reason,    *)
(* and the server pushes to the topic                                      *)

CloseCodes == {1000, 1006}

DoCloseWith ==
    /\ \E id \in 1..Len(connections), code \in CloseCodes :
           Close(id, code, IF code = 1000 THEN "bye" ELSE "")
    /\ UNCHANGED <<httpVars, matchVars, sendVars, builderVars, authVars, contextVars>>

DoSubscribe ==
    /\ inbound.count < MaxInbound
    /\ \E id \in 1..Len(connections) :
           Message(id, TextOf(ClientDoc(HIGH, KeepA)))
    /\ UNCHANGED <<httpVars, matchVars, sendVars, builderVars, authVars, contextVars>>

NextClose ==
    \/ DoConnection
    \/ DoSubscribe
    \/ DoCloseWith
    \/ DoPush

SpecClose == InitSocket /\ [][NextClose]_vars

\* the connection has had its 'close' event
Closed(c) == c.closure.def

\* C21: when a connection closes, the close callback is called, once,
\* with the code and the reason of the event while the entry of the
\* connection still exists, and the entry is gone afterwards; from then on
\* no topic broadcast sends anything to the connection
C21_CloseCallbackThenRemoval ==
    /\ [](\A i \in 1..Len(connections) :
              /\ Closed(connections[i]) =>
                     /\ connections[i].closeCalls =
                            <<[code |-> connections[i].closure.val.code,
                               reason |-> connections[i].closure.val.reason,
                               entry |-> TRUE]>>
                     /\ ~connections[i].registered
              /\ ~Closed(connections[i]) =>
                     /\ connections[i].closeCalls = <<>>
                     /\ connections[i].registered)
    /\ [][\A i \in 1..Len(connections) :
              Closed(connections[i]) =>
                  /\ Closed(connections'[i])
                  /\ connections'[i].sent = connections[i].sent
                  /\ ~connections'[i].registered]_vars

\* a subscriber of topic a was closed with code 1006, and a push to the
\* topic after that went to the other subscriber alone
C21_Witness ==
    /\ Len(connections) = 2
    /\ connections[1].control.def
    /\ connections[1].closure = Some([code |-> 1006, reason |-> ""])
    /\ connections[1].sent = <<>>
    /\ connections[2].sent = <<OutMessage>>
    /\ Len(outbound) = 1

-----------------------------------------------------------------------------
(* SpecAll: one path registered with all() and get(), several times, and   *)
(* requested with every method                                             *)

Methods == {"GET", "POST", "PUT", "DELETE", "PATCH"}

InitAll ==
    /\ Constructed(DefaultConfig(V1))
    /\ MatcherIdle
    /\ ResponderIdle
    /\ SocketsIdle
    /\ BuildersIdle
    /\ DevicesIdle
    /\ ContextIdle

DoRegisterAll ==
    /\ Registrations(routes) < MaxRoutes
    /\ \E method \in {"ALL", "GET"} :
           Register(method, PathTest, EmptyStr, None)
    /\ UNCHANGED <<matchVars, sendVars, socketVars, builderVars, authVars, contextVars>>

DoSetVersionAll ==
    /\ \E v \in {EmptyStr, V1} : setAPIVersion(v)
    /\ UNCHANGED <<matchVars, sendVars, socketVars, builderVars, authVars, contextVars>>

DoArriveAll ==
    /\ Len(reqs) < MaxReqs
    /\ \E method \in Methods : Arrive(method, PathTest, None, Undefined, "ip1")
    /\ UNCHANGED <<matchVars, sendVars, socketVars, builderVars, authVars>>

NextAll ==
    \/ DoRegisterAll
    \/ DoSetVersionAll
    \/ DoArriveAll

SpecAll == InitAll /\ [][NextAll]_vars

\* the registrations made before r under the version active for r and
\* r's path
UnderActive(r) == {e \in EntriesBefore(r) : e.key = r.version \o r.url}

\* C22 (as claimed): a request to a path registered with all() under the
\* active version is dispatched to the handler of that registration,
\* whatever its method
C22_AllRouteIsDispatched ==
    \A n \in 1..Len(reqs) : \A e \in UnderActive(reqs[n]) :
        e.method = "ALL" => Final(reqs[n]) = e.info.handler

\* C22 (what the code does): the same holds where the active version is
\* not empty and the all() registration is the only one of its path; under
\* an empty version the request is dispatched to the fallback
C22_AllRouteAloneIsDispatched ==
    \A n \in 1..Len(reqs) : \A e \in UnderActive(reqs[n]) :
        ( e.method = "ALL" /\ UnderActive(reqs[n]) = {e} ) =>
            Final(reqs[n]) = IF reqs[n].version = EmptyStr THEN routeFallback
                             ELSE e.info.handler

\* a PATCH request arrived for a path registered with all() under an
\* empty version
C22_Witness ==
    \E n \in 1..Len(reqs) :
        /\ reqs[n].method = "PATCH"
        /\ reqs[n].version = EmptyStr
        /\ \E e \in UnderActive(reqs[n]) : e.method = "ALL"

\* the registrations before r for the active version, r's path and r's
\* method
SameMethod(r) == {e \in UnderActive(r) : e.method = r.method}

\* the earliest and the latest of a set of registrations
FirstMade(es) == CHOOSE e \in es : \A f \in es : e.info.handler.id <= f.info.handler.id
LastMade(es) == CHOOSE e \in es : \A f \in es : e.info.handler.id >= f.info.handler.id

\* C26 (as claimed): of several registrations of one versioned path and
\* one method, a matching request is dispatched to the one made first
C26_FirstRegistrationWins ==
    \A n \in 1..Len(reqs) :
        Cardinality(SameMethod(reqs[n])) > 1 =>
            Final(reqs[n]) = FirstMade(SameMethod(reqs[n])).info.handler

\* C26 (what the code does): where the path has registrations of the
\* request's method alone, the request is dispatched to the one made last
\* under a version that is not empty, and to the fallback under an empty
\* version
C26_LastRegistrationWins ==
    \A n \in 1..Len(reqs) :
        ( /\ Cardinality(SameMethod(reqs[n])) > 1
          /\ SameMethod(reqs[n]) = UnderActive(reqs[n]) ) =>
            Final(reqs[n]) =
                IF reqs[n].version = EmptyStr THEN routeFallback
                ELSE LastMade(SameMethod(reqs[n])).info.handler

\* a GET request arrived under 'v1' for a path with two GET registrations
C26_Witness ==
    \E n \in 1..Len(reqs) :
        /\ reqs[n].version = V1
        /\ Cardinality(SameMethod(reqs[n])) = 2
        /\ reqs[n].pc = "idle"

-----------------------------------------------------------------------------
(* server: the route builder addRoute returns *)

\* a builder that holds the key of its registration
RouteBuilderOfVersioned(c, path, options) ==
    [path |-> versionedPathOf(c, path, options)]

\* the builder of addRoute(method, path, handler, options): its methods
\* close over the path argument
RouteBuilder(c, path, options) ==
    [path |-> path]

\* addRoute with its builder kept: on is the builder the call was made on,
\* 0 for a call on the server; the log keeps each call with the builder it
\* returned
addRouteKept(on, method, path, subPath, apiVersion, paramRules) ==
    LET options == [apiVersion |-> apiVersion, paramRules |-> paramRules]
        id == Registrations(routes) + 1
    IN  /\ Register(method, path \o subPath, apiVersion, paramRules)
        /\ builders' = Append(builders,
               [builder |-> RouteBuilder(config, path \o subPath, options),
                on |-> on, method |-> method, subPath |-> subPath,
                apiVersion |-> apiVersion, active |-> config.apiVersion,
                id |-> id])

\* server.get/post/put/delete/all(path, handler, options), builder kept
ServerRoute(method, path, apiVersion, paramRules) ==
    addRouteKept(0, method, EmptyStr, path, apiVersion, paramRules)

\* builder.get/post/put/delete/all(subPath, handler, options), builder kept
BuilderRoute(b, method, subPath, apiVersion, paramRules) ==
    addRouteKept(b, method, builders[b].builder.path, subPath, apiVersion,
                 paramRules)

-----------------------------------------------------------------------------
(* SpecBuilder: registrations on the server and on the builders they       *)
(* return, with changes of the active version in between                   *)

MaxBuilt == 2

PathUsers == <<"/", "u", "s", "e", "r", "s">>
SubId == <<"/", ":", "i", "d">>
SubTest == <<"/", "t", "e", "s", "t">>

InitBuilder ==
    /\ Constructed(DefaultConfig(V1))
    /\ MatcherIdle
    /\ ResponderIdle
    /\ SocketsIdle
    /\ BuildersIdle
    /\ DevicesIdle
    /\ ContextIdle

DoServerRoute ==
    /\ Registrations(routes) < MaxBuilt
    /\ \E method \in {"GET", "ALL"}, v \in {EmptyStr, V2} :
           ServerRoute(method, PathUsers, v, None)
    /\ UNCHANGED <<matchVars, sendVars, socketVars, authVars, contextVars>>

DoBuilderRoute ==
    /\ Registrations(routes) < MaxBuilt
    /\ \E b \in 1..Len(builders), method \in {"GET", "POST"},
          s \in {SubId, SubTest}, v \in {EmptyStr, V2} :
           BuilderRoute(b, method, s, v, None)
    /\ UNCHANGED <<matchVars, sendVars, socketVars, authVars, contextVars>>

DoSetVersionBuilder ==
    /\ \E v \in {EmptyStr, V1} : setAPIVersion(v)
    /\ UNCHANGED <<matchVars, sendVars, socketVars, builderVars, authVars, contextVars>>

NextBuilder ==
    \/ DoServerRoute
    \/ DoBuilderRoute
    \/ DoSetVersionBuilder

SpecBuilder == InitBuilder /\ [][NextBuilder]_vars

\* the path a kept call registered, without version: the path of the call
\* on the server followed by the sub-paths down to this call
RECURSIVE PathOfCall(_)
PathOfCall(i) ==
    IF builders[i].on = 0 THEN builders[i].subPath
    ELSE PathOfCall(builders[i].on) \o builders[i].subPath

\* the version a kept call registered under
VersionOfCall(i) ==
    IF builders[i].apiVersion # EmptyStr THEN builders[i].apiVersion
    ELSE builders[i].active

\* the registration a kept call made
EntryOfCall(i) ==
    CHOOSE e \in Entries(routes) : e.info.handler.id = builders[i].id

\* C23: a registration made on the builder of path p with sub-path s is in
\* the route table under its method, and its key and template are the
\* version of that call followed once by p \o s; so get('/users', h1)
\* .get('/:id', h2) holds a GET registration with template
\* version \o '/users/:id'
C23_BuilderRegistersUnderPrefix ==
    \A i \in 1..Len(builders) :
        /\ \E e \in Entries(routes) : e.info.handler.id = builders[i].id
        /\ EntryOfCall(i).method = builders[i].method
        /\ EntryOfCall(i).key = VersionOfCall(i) \o PathOfCall(i)
        /\ EntryOfCall(i).info.pattern.original
               = VersionOfCall(i) \o PathOfCall(i)
        /\ EntryOfCall(i).info.pattern.segments
               = Split(VersionOfCall(i) \o PathOfCall(i))

\* get('/users', h1).get('/:id', h2) under v1: the table holds the GET
\* registration of h2 with template v1/users/:id
C23_Witness ==
    /\ Len(builders) = 2
    /\ builders[1].on = 0 /\ builders[1].method = "GET"
    /\ builders[2].on = 1 /\ builders[2].method = "GET"
    /\ builders[2].subPath = SubId
    /\ builders[2].active = V1 /\ builders[2].apiVersion = EmptyStr
    /\ EntryOfCall(2).info.pattern.original = V1 \o PathUsers \o SubId

-----------------------------------------------------------------------------
(* SpecVersion: registrations of one path with and without an explicit     *)
(* version, changes of the active version, and requests for the path       *)

DoRegisterVersion ==
    /\ Registrations(routes) < MaxRoutes
    /\ \E v \in {EmptyStr, V2} : Register("GET", PathTest, v, None)
    /\ UNCHANGED <<matchVars, sendVars, socketVars, builderVars, authVars, contextVars>>

DoSetVersion ==
    /\ \E v \in Versions : setAPIVersion(v)
    /\ UNCHANGED <<matchVars, sendVars, socketVars, builderVars, authVars, contextVars>>

DoArriveVersion ==
    /\ Len(reqs) < MaxReqs
    /\ Arrive("GET", PathTest, None, Undefined, "ip1")
    /\ UNCHANGED <<matchVars, sendVars, socketVars, builderVars, authVars>>

NextVersion ==
    \/ DoRegisterVersion
    \/ DoSetVersion
    \/ DoArriveVersion

SpecVersion == InitAll /\ [][NextVersion]_vars

\* the step changes the active version
VersionChanges == config'.apiVersion # config.apiVersion

\* the step makes a registration; the registration it makes
Registers == Registrations(routes') = Registrations(routes) + 1
Registered ==
    CHOOSE e \in Entries(routes') :
        e.info.handler.id = Registrations(routes')

\* the step receives a request; the request it receives
Receives == Len(reqs') = Len(reqs) + 1
Received == reqs'[Len(reqs')]

\* C24: a step that changes the active version changes nothing else: the
\* route table with its keys, methods, registrations and templates is the
\* same before and after; a registration made afterwards is under the
\* version then active (or its explicit one), and a lookup made afterwards
\* selects only registrations under the version then active
C24_SetVersionChangesOnlyVersion ==
    [][ /\ VersionChanges =>
              /\ routes' = routes
              /\ config' = [config EXCEPT !.apiVersion = config'.apiVersion]
              /\ middleware' = middleware /\ reqs' = reqs
              /\ blacklist' = blacklist /\ whitelist' = whitelist
        /\ Registers =>
              /\ Registered.key \in {config.apiVersion \o PathTest,
                                     V2 \o PathTest}
              /\ Registered.info.pattern.original = Registered.key
              /\ Entries(routes) \subseteq Entries(routes')
        /\ Receives =>
              \/ Final(Received) = routeFallback
              \/ \E e \in Entries(routes) :
                     /\ e.info.handler = Final(Received)
                     /\ e.key = config.apiVersion \o Received.url ]_vars

\* a route registered under v1, the version then changed to v2, a second
\* route registered without an explicit version, and a request dispatched
\* to it
C24_Witness ==
    /\ config.apiVersion = V2
    /\ \E e \in Entries(routes) :
           e.key = V1 \o PathTest /\ e.info.handler.id = 1
    /\ \E e \in Entries(routes) :
           e.key = V2 \o PathTest /\ e.info.handler.id = 2
    /\ Len(reqs) = 1
    /\ Final(reqs[1]) = RouteHandler(2)

-----------------------------------------------------------------------------
(* auth: the device identity; server: loginUser, isUserLoggedIn,           *)
(* logoutUser on PulseDB.deviceDatastore                                   *)

\* the headers createUserDeviceID reads, and the socket's address
DeviceRequest(fwd, remote, agent, ram, audio, cores) ==
    [fwd |-> fwd, remote |-> remote, agent |-> agent, ram |-> ram,
     audio |-> audio, cores |-> cores]

\* a header that is absent or empty
NoHeader(h) == h = Undefined \/ h = ""

\* createUserDeviceID: the digest of the five values joined by '|', or an
\* Error thrown when one of them is missing; the digest is kept as the
\* values it was computed from
createUserDeviceID(req) ==
    LET ip == IF ~NoHeader(req.fwd) THEN req.fwd ELSE req.remote
    IN  IF NoHeader(ip) \/ NoHeader(req.agent) \/ NoHeader(req.ram)
           \/ NoHeader(req.audio) \/ NoHeader(req.cores)
        THEN None
        ELSE Some([sha256 |-> <<ip, req.agent, req.ram, req.audio,
                                 req.cores>>])

\* the documents of the device store with an id
DocsOf(docs, ID) == {i \in 1..Len(docs) : docs[i].id = ID}

\* a find whose callback has run when find returns
existsFoundInline(docs, ID) == DocsOf(docs, ID) # {}

\* the local exists when the statement after deviceDatastore.find reads
\* it: the store calls back from a later turn of the event loop, so it
\* still has its initial value
existsAfterFind(docs, ID) == FALSE

\* remove({ id: ID }): the first document with the id
RemoveOne(docs, ID) ==
    IF DocsOf(docs, ID) = {} THEN docs
    ELSE LET i == CHOOSE j \in DocsOf(docs, ID) :
                       \A k \in DocsOf(docs, ID) : j <= k
         IN  SubSeq(docs, 1, i - 1) \o SubSeq(docs, i + 1, Len(docs))

\* the devices whose latest loginUser or logoutUser was a loginUser
LoggedIn(d) == {ID \in DOMAIN d.latest : d.latest[ID] = "login"}

\* a call with the identity ID is noted as the latest of its device
Noted(d, ID, op) ==
    [d EXCEPT !.latest = [x \in DOMAIN d.latest \cup {ID} |->
                             IF x = ID THEN op ELSE d.latest[x]],
              !.calls = @ + 1]

\* loginUser(req)
loginUser(req) ==
    LET ID == createUserDeviceID(req)
    IN  IF ~ID.def THEN UNCHANGED devices
        ELSE LET exists == existsAfterFind(devices.docs, ID.val)
                 found == [Noted(devices, ID.val, "login")
                              EXCEPT !.finds = @ + 1]
             IN  devices' = IF exists THEN found
                            ELSE [found EXCEPT
                                     !.docs = Append(@, [id |-> ID.val])]

\* isUserLoggedIn(req); the value it returned is kept with the devices
\* that were logged in at the call
isUserLoggedIn(req) ==
    LET ID == createUserDeviceID(req)
    IN  IF ~ID.def THEN UNCHANGED devices
        ELSE LET exists == existsAfterFind(devices.docs, ID.val)
             IN  devices' = [devices EXCEPT
                     !.finds = @ + 1,
                     !.calls = @ + 1,
                     !.asked = Some([id |-> ID.val, returned |-> exists,
                                     loggedIn |-> LoggedIn(devices),
                                     stored |-> Cardinality(
                                         DocsOf(devices.docs, ID.val))])]

\* logoutUser(req)
logoutUser(req) ==
    LET ID == createUserDeviceID(req)
    IN  IF ~ID.def THEN UNCHANGED devices
        ELSE LET exists == existsAfterFind(devices.docs, ID.val)
                 found == [Noted(devices, ID.val, "logout")
                              EXCEPT !.finds = @ + 1]
             IN  devices' = IF ~exists THEN found
                            ELSE [found EXCEPT
                                     !.docs = RemoveOne(@, ID.val)]

\* the callback of a find: it assigns the local exists of a call that has
\* returned
DeviceFindDone ==
    /\ devices.finds > 0
    /\ devices' = [devices EXCEPT !.finds = @ - 1]

-----------------------------------------------------------------------------
(* SpecDevice: two devices and a request without its headers log in, ask   *)
(* and log out                                                             *)

MaxDeviceCalls == 3

DeviceA == DeviceRequest(Undefined, "ip1", "agent", "8", "audio", "4")
DeviceB == DeviceRequest("ip2", "ip1", "agent", "8", "audio", "4")
NoDevice == DeviceRequest(Undefined, "ip1", Undefined, "8", "audio", "4")
DeviceRequests == {DeviceA, DeviceB, NoDevice}

IdOf(req) == createUserDeviceID(req).val

InitDevice ==
    /\ Constructed(DefaultConfig(V1))
    /\ MatcherIdle
    /\ ResponderIdle
    /\ SocketsIdle
    /\ BuildersIdle
    /\ DevicesIdle
    /\ ContextIdle

DoLoginUser ==
    /\ devices.calls < MaxDeviceCalls
    /\ \E req \in DeviceRequests : loginUser(req)
    /\ UNCHANGED <<httpVars, matchVars, sendVars, socketVars, builderVars, contextVars>>

DoIsUserLoggedIn ==
    /\ devices.calls < MaxDeviceCalls
    /\ \E req \in DeviceRequests : isUserLoggedIn(req)
    /\ UNCHANGED <<httpVars, matchVars, sendVars, socketVars, builderVars, contextVars>>

DoLogoutUser ==
    /\ devices.calls < MaxDeviceCalls
    /\ \E req \in DeviceRequests : logoutUser(req)
    /\ UNCHANGED <<httpVars, matchVars, sendVars, socketVars, builderVars, contextVars>>

DoDeviceFindDone ==
    /\ DeviceFindDone
    /\ UNCHANGED <<httpVars, matchVars, sendVars, socketVars, builderVars, contextVars>>

NextDevice ==
    \/ DoLoginUser
    \/ DoIsUserLoggedIn
    \/ DoLogoutUser
    \/ DoDeviceFindDone

SpecDevice == InitDevice /\ [][NextDevice]_vars

\* C25 (as claimed): isUserLoggedIn returns true exactly when the device
\* of the request is logged in, and no device has two records
C25_LoggedInExactlyAfterLogin ==
    /\ devices.asked.def =>
           devices.asked.val.returned
               = (devices.asked.val.id \in devices.asked.val.loggedIn)
    /\ \A i, j \in 1..Len(devices.docs) :
           devices.docs[i] = devices.docs[j] => i = j

\* C25 (what the code does): isUserLoggedIn returns false whatever was
\* stored, every loginUser adds a record and no logoutUser removes one
C25_NeverLoggedIn ==
    /\ devices.asked.def => ~devices.asked.val.returned
    /\ [][Len(devices'.docs) >= Len(devices.docs)]_vars
    /\ [][\A req \in DeviceRequests :
             ( createUserDeviceID(req).def /\ loginUser(req) ) =>
                 Len(devices'.docs) = Len(devices.docs) + 1]_vars

\* isUserLoggedIn was called for a device after its loginUser, with its
\* record stored
C25_Witness ==
    /\ devices.asked.def
    /\ devices.asked.val.id = IdOf(DeviceA)
    /\ devices.asked.val.id \in devices.asked.val.loggedIn
    /\ devices.asked.val.stored > 0

-----------------------------------------------------------------------------
(* SpecFlight: several requests in flight at once, each waiting for the    *)
(* store or for its body, while middleware is added                        *)

MaxFlights == 2

DoUseFlight ==
    /\ UserCount(middleware) < MaxUse
    /\ \E does \in {"next", "end"} :
           use(UserMiddleware(UserCount(middleware) + 1, does))
    /\ UNCHANGED <<matchVars, sendVars, socketVars, builderVars, authVars, contextVars>>

DoArriveFlight ==
    /\ Len(reqs) < MaxFlights
    /\ Arrive("GET", PathTest, None, Undefined, "ip1")
    /\ UNCHANGED <<matchVars, sendVars, socketVars, builderVars, authVars>>

NextFlight ==
    \/ DoUseFlight
    \/ DoArriveFlight
    \/ DoFindDone
    \/ DoInsertDone
    \/ DoBodyDone

SpecFlight == InitChain /\ [][NextFlight]_vars

\* the user middleware of the global list, in the order of the list
UsedIds == [i \in 1..UserCount(middleware) |->
               middleware[Len(middleware) - UserCount(middleware) + i].id]

\* the request waits for a callback
InFlight(r) == r.pc \notin {"idle", "run"}

\* C27: the global middleware list is the constructor's stages followed
\* by the use() registrations in their order, and only a use() changes it,
\* by appending; a request's queue and trace make up the chain it was
\* given, whose middleware part is the front of the global list; a step
\* that advances one request leaves every other request as it was
C27_DispatchKeepsMiddleware ==
    /\ [](/\ SubSeq(middleware, 1, Len(middleware) - UserCount(middleware))
                = ConstructorMiddleware(config)
          /\ UsedIds = [i \in 1..UserCount(middleware) |-> i]
          /\ \A n \in Chained :
                 /\ reqs[n].trace \o reqs[n].handlers = reqs[n].chain
                 /\ SubSeq(reqs[n].chain, 1, Len(reqs[n].chain) - 1)
                        = SubSeq(middleware, 1, Len(reqs[n].chain) - 1))
    /\ [][ /\ middleware' # middleware =>
                 /\ reqs' = reqs
                 /\ SubSeq(middleware', 1, Len(middleware)) = middleware
                 /\ Len(middleware') = Len(middleware) + 1
           /\ \A n \in 1..Len(reqs) :
                 reqs'[n] # reqs[n] =>
                     /\ middleware' = middleware
                     /\ Len(reqs') = Len(reqs)
                     /\ reqs'[n].chain = reqs[n].chain
                     /\ \A m \in 1..Len(reqs) : m # n => reqs'[m] = reqs[m]
         ]_vars

\* two requests in flight with different chains, the later one further
\* along its chain than the earlier one
C27_Witness ==
    /\ Len(reqs) = 2
    /\ InFlight(reqs[1]) /\ InFlight(reqs[2])
    /\ reqs[1].chain # reqs[2].chain
    /\ Len(reqs[2].trace) > Len(reqs[1].trace)
    /\ UserCount(middleware) > 0

-----------------------------------------------------------------------------
(* SpecAnswer: requests with and without a client address, for a route     *)
(* and for the dashboard's files, behind middleware that ends the response *)
(* or calls next(); every callback of the store, of the body parser and of *)
(* fs.exists is eventually delivered                                       *)

PathFavicon == <<"/">> \o FaviconIco

DoArriveAnswer ==
    /\ Len(reqs) < MaxReqs
    /\ \E urlPath \in {PathTest, PathAppJs, PathFavicon},
          remote \in {"ip1", Undefined} :
           Arrive("GET", urlPath, None, Undefined, remote)
    /\ UNCHANGED <<matchVars, sendVars, socketVars, builderVars, authVars>>

NextAnswer ==
    \/ DoUseFlight
    \/ DoArriveAnswer
    \/ DoFindDone
    \/ DoInsertDone
    \/ DoBodyDone
    \/ DoStatics

\* a request waits for its body: DoBodyDone is enabled
BodyWaiting == \E n \in 1..Len(reqs) : reqs[n].pc = "body"

\* the last conjunct is WF_vars(DoBodyDone), written out with the
\* action's enabling condition
SpecAnswer ==
    /\ InitChain
    /\ [][NextAnswer]_vars
    /\ WF_vars(DoFindDone)
    /\ WF_vars(DoInsertDone)
    /\ WF_vars(DoStatics)
    /\ ([]<>(~BodyWaiting) \/ []<><<DoBodyDone>>_vars)

\* request n has arrived and its response is ended
Answered(n) == Len(reqs) >= n /\ reqs[n].res.ended

\* request n has arrived, no handler of it runs or waits for a callback,
\* and its response is not ended
Abandoned(n) ==
    /\ Len(reqs) >= n
    /\ reqs[n].pc = "idle"
    /\ ~reqs[n].res.ended

\* the gate returned for want of a client address
GateGaveUp(r) ==
    /\ ClientIp(r) = Undefined
    /\ r.trace # <<>>
    /\ r.trace[Len(r.trace)].kind = "ipGate"

\* handleDashboardStatics found a file that is neither .js, .css nor .svg
NoContentType(r) ==
    /\ r.chain = <<>>
    /\ IsDashboardStatic(r.url)
    /\ ~EndsWith(r.url, <<".", "j", "s">>)
    /\ ~EndsWith(r.url, <<".", "c", "s", "s">>)
    /\ ~EndsWith(r.url, <<".", "s", "v", "g">>)

\* C28 (as claimed): every request is eventually answered
C28_EveryRequestIsAnswered ==
    \A n \in 1..MaxReqs : [](Len(reqs) >= n => <>Answered(n))

\* C28 (what the code does): every request is eventually answered or
\* abandoned, and it is abandoned only by the gate, for want of a client
\* address, or by handleDashboardStatics, for a file of another type
C28_AnsweredOrAbandoned ==
    /\ \A n \in 1..MaxReqs :
           [](Len(reqs) >= n => <>(Answered(n) \/ Abandoned(n)))
    /\ [](\A n \in 1..MaxReqs :
              Abandoned(n) => GateGaveUp(reqs[n]) \/ NoContentType(reqs[n]))

\* a request without a client address was abandoned by the gate
C28_Witness ==
    /\ Abandoned(1)
    /\ GateGaveUp(reqs[1])

\* a request for favicon.ico was abandoned by handleDashboardStatics
C28_WitnessStatics ==
    /\ Abandoned(1)
    /\ NoContentType(reqs[1])

-----------------------------------------------------------------------------
(* SpecParams: a server constructed without a version registers the        *)
(* template '/:id', then setAPIVersion('v1') and get('/test', h2); the     *)
(* requests are for /test, with and without a query string. A request     *)
(* for /test fits the template, which binds id, and is dispatched to h2.   *)

PathId == <<"/", ":", "i", "d">>
KeyX == <<"x">>

ParamRoutes ==
    addRoute(addRoute(<<>>, ChainConfig(EmptyStr), "GET", PathId,
                      RouteHandler(1),
                      [apiVersion |-> EmptyStr, paramRules |-> None]),
             ChainConfig(V1), "GET", PathTest, RouteHandler(2),
             [apiVersion |-> EmptyStr, paramRules |-> None])

\* the parsed query strings: none, ?x=1, ?id=7, ?x=1&id=7
Queries ==
    {None,
     Some(<< <<KeyX, <<"1">> >> >>),
     Some(<< <<Id, <<"7">> >> >>),
     Some(<< <<KeyX, <<"1">> >>, <<Id, <<"7">> >> >>)}

InitParams ==
    /\ config = ChainConfig(V1)
    /\ routes = ParamRoutes
    /\ middleware = ConstructorMiddleware(ChainConfig(V1))
    /\ blacklist = {}
    /\ whitelist = {}
    /\ reqs = <<>>
    /\ store = <<>>
    /\ now = 0
    /\ MatcherIdle
    /\ ResponderIdle
    /\ SocketsIdle
    /\ BuildersIdle
    /\ DevicesIdle
    /\ ContextIdle

DoArriveParams ==
    /\ Len(reqs) < MaxReqs
    /\ \E method \in {"GET", "POST"}, q \in Queries :
           Arrive(method, PathTest, q, Undefined, "ip1")
    /\ UNCHANGED <<matchVars, sendVars, socketVars, builderVars, authVars>>

NextParams ==
    \/ DoUseFlight
    \/ DoArriveParams
    \/ DoFindDone
    \/ DoInsertDone
    \/ DoBodyDone

SpecParams == InitParams /\ [][NextParams]_vars

\* what route resolution bound for r from the path
Bound(r) == Resolve(routes, config, r.method, r.url).params

\* the route handler of r has run
HandlerRan(r) == LastInvoked(r).kind = "route"

\* C29 (as claimed): every parameter that route resolution bound from the
\* path is in req.params, with its value, when the route handler reads it
C29_PathParamsReachHandler ==
    \A n \in 1..Len(reqs) :
        (HandlerRan(reqs[n]) /\ Bound(reqs[n]).def) =>
            /\ reqs[n].seen.def
            /\ \A i \in 1..Len(Bound(reqs[n]).val) :
                   LET name == Bound(reqs[n]).val[i][1]
                   IN  /\ Has(reqs[n].seen.val, name)
                       /\ ( ~( reqs[n].query.def
                               /\ Has(reqs[n].query.val, name) ) =>
                              Get(reqs[n].seen.val, name)
                                  = Bound(reqs[n]).val[i][2] )

\* C29 (what the code does): the route handler reads the parameters of
\* the query string alone when the URL has one, and the path-bound ones
\* only when it has none
C29_QueryReplacesPathParams ==
    \A n \in 1..Len(reqs) :
        HandlerRan(reqs[n]) =>
            reqs[n].seen = IF reqs[n].query.def THEN reqs[n].query
                           ELSE Bound(reqs[n])

\* the handler of /test has run for /test?x=1, with id bound from the path
C29_Witness ==
    /\ Len(reqs) = 1
    /\ HandlerRan(reqs[1])
    /\ reqs[1].query = Some(<< <<KeyX, <<"1">> >> >>)
    /\ Bound(reqs[1]).def
    /\ Has(Bound(reqs[1]).val, Id)

-----------------------------------------------------------------------------
(* SpecPriority: connections subscribe, once each and with different      *)
(* priorities, some begin to close, and the server broadcasts to all and   *)
(* to a topic                                                              *)

PriorityTexts ==
    {TextOf(ClientDoc(HIGH, KeepA)), TextOf(ClientDoc(LOW, KeepA))}

DoSubscribeWith ==
    /\ inbound.count < MaxInbound
    /\ \E id \in 1..Len(connections), msg \in PriorityTexts :
           /\ ~connections[id].keep.def
           /\ Message(id, msg)
    /\ UNCHANGED <<httpVars, matchVars, sendVars, builderVars, authVars, contextVars>>

NextPriority ==
    \/ DoConnection
    \/ DoSubscribeWith
    \/ DoClosing
    \/ DoSendAll
    \/ DoPush

SpecPriority == InitSocket /\ [][NextPriority]_vars

\* the values connection.priority can have
PriorityValues == {None, Some(HIGH), Some(LOW), Some(NORMAL)}

\* the registries that differ from conns in priorities only
Reprioritized(conns) ==
    {[i \in 1..Len(conns) |-> [conns[i] EXCEPT !.priority = p[i]]] :
        p \in [1..Len(conns) -> PriorityValues]}

\* the connections a broadcast has sent to
Recipients(before, after) ==
    {i \in 1..Len(before) : after[i].sent # before[i].sent}

\* the recipients of the latest broadcast, by the messages sent since the
\* registry was as it is now but for them
Delivered == {i \in 1..Len(connections) : connections[i].sent # <<>>}

\* C30: a broadcast to all, or to a topic, made on the registry and made
\* on any registry that differs from it in priorities only, is delivered
\* to the same connections
C30_PriorityDoesNotSelect ==
    LET toAll == Recipients(connections,
                     sendSocketMessageAll(connections, OutMessage))
        toTopic == [t \in {TopicA, TopicB} |->
                       Recipients(connections,
                           pushMessageToSchemaSubscribers(connections, t,
                                                          OutMessage))]
    IN  \A other \in Reprioritized(connections) :
            /\ Recipients(other, sendSocketMessageAll(other, OutMessage))
                   = toAll
            /\ \A t \in {TopicA, TopicB} :
                   Recipients(other,
                       pushMessageToSchemaSubscribers(other, t, OutMessage))
                     = toTopic[t]

\* a broadcast to all was delivered to a connection of HIGH priority and
\* to a connection of LOW priority
C30_Witness ==
    /\ Len(connections) = 2
    /\ Len(outbound) = 1
    /\ LatestCall.op = "sendSocketMessageAll"
    /\ connections[1].priority = Some(HIGH)
    /\ connections[2].priority = Some(LOW)
    /\ Delivered = {1, 2}

-----------------------------------------------------------------------------
(* Claims about the rate limiter under concurrent requests, checked under  *)
(* SpecRate                                                                *)

\* the requests of an address that the rate limiter has passed
Admitted(ip) ==
    {n \in 1..Len(reqs) : ClientIp(reqs[n]) = ip /\ PassedLimiter(reqs[n])}

\* every request so far arrived with no other request in flight
AllOneAtATime == \A n \in 1..Len(reqs) : reqs[n].alone

\* C31 (as claimed): within one window that began with an empty store, no
\* address has more than maxRequests + 1 requests admitted, however the
\* lookups and inserts of its requests interleave
C31_AdmittedWithinCeiling ==
    now < config.rateLimit.timeMs =>
        \A ip \in {"ip1", "ip2"} :
            Cardinality(Admitted(ip)) <= config.rateLimit.maxRequests + 1

\* C31 (what the code does): the ceiling holds for requests processed one
\* at a time; a request is admitted on the records its own lookup found,
\* whatever was admitted between its lookup and its insert
C31_AdmittedWithinCeilingOneAtATime ==
    (now < config.rateLimit.timeMs /\ AllOneAtATime) =>
        \A ip \in {"ip1", "ip2"} :
            Cardinality(Admitted(ip)) <= config.rateLimit.maxRequests + 1

\* maxRequests + 2 requests of one address are admitted within one window
C31_Witness ==
    /\ now < config.rateLimit.timeMs
    /\ Cardinality(Admitted("ip1")) = config.rateLimit.maxRequests + 2

-----------------------------------------------------------------------------
(* Claims about the records the rate limiter writes, checked under         *)
(* SpecWindow                                                              *)

\* in this step the find callback of request n ends the response with
\* the status
RejectedAtFind(n, status) ==
    /\ reqs[n].pc = "find"
    /\ reqs'[n].res.ended
    /\ reqs'[n].res.statusCode = status
    /\ ~PassedLimiter(reqs'[n])

\* in this step the insert of request n is stored and the limiter calls
\* next()
StoredAtInsert(n) ==
    /\ reqs[n].pc = "insert"
    /\ PassedLimiter(reqs'[n])
    /\ store' = Append(store, reqs[n].doc)
    /\ reqs[n].doc.ip = ClientIp(reqs[n])

\* C32: the step in which the rate limiter answers a request 429, or 500
\* on the failed lookup, leaves the store as it was; the store changes
\* only by the record of a request the limiter admits
C32_RejectionStoresNothing ==
    [][ /\ \A n \in 1..Len(reqs) :
               (RejectedAtFind(n, 429) \/ RejectedAtFind(n, 500))
               => store' = store
        /\ store' # store => \E n \in 1..Len(reqs) : StoredAtInsert(n)
      ]_vars

\* an address over its ceiling was answered 429 twice and the store holds
\* what it held before
C32_Witness ==
    /\ Len(reqs) = 2
    /\ Limited(reqs[1]) /\ Limited(reqs[2])
    /\ store = StoredBefore(MaxStored)

-----------------------------------------------------------------------------
(* SpecContext: a context function is set before the server takes          *)
(* requests; requests of two addresses are in flight together, each        *)
(* waiting for the store or for its body                                   *)

\* setContextMiddleware(fn)
setContextMiddleware(fn) ==
    /\ contextFn' = fn
    /\ UNCHANGED <<httpVars, context>>

DoSetContextMiddleware ==
    /\ reqs = <<>>
    /\ \E fn \in ContextFns : setContextMiddleware(fn)
    /\ UNCHANGED <<matchVars, sendVars, socketVars, builderVars, authVars>>

DoArriveContext ==
    /\ Len(reqs) < MaxFlights
    /\ \E remote \in {"ip1", "ip2"} :
           Arrive("GET", PathTest, None, Undefined, remote)
    /\ UNCHANGED <<matchVars, sendVars, socketVars, builderVars, authVars>>

NextContext ==
    \/ DoSetContextMiddleware
    \/ DoArriveContext
    \/ DoFindDone
    \/ DoInsertDone
    \/ DoBodyDone

SpecContext == InitChain /\ [][NextContext]_vars

\* a middleware or handler of request n runs in this step
RunsIn(n) ==
    IF n > Len(reqs) THEN reqs'[n].trace # <<>>
    ELSE Len(reqs'[n].trace) > Len(reqs[n].trace)

\* what the context function set for request r
OwnContext(r) == setContextData(contextFn, r.fwd, r.remote)

\* C33 (as claimed): what getContext() returns to a middleware or handler
\* of a request is the context the context function set for that request
C33_ContextIsOwn ==
    [][\A n \in 1..Len(reqs') :
           RunsIn(n) => getContext' = OwnContext(reqs'[n])]_vars

\* C33 (what the code does): it is the context set for the request that
\* arrived last, which is the request's own when no other request arrived
\* since
C33_ContextIsLatest ==
    [][\A n \in 1..Len(reqs') :
           RunsIn(n) => getContext' = OwnContext(reqs'[Len(reqs')])]_vars

\* the route handler of the first request has run after a request of
\* another address arrived, under a context function that sets the address
C33_Witness ==
    /\ Len(reqs) = 2
    /\ contextFn = "client"
    /\ ClientIp(reqs[1]) # ClientIp(reqs[2])
    /\ ~reqs[2].alone
    /\ LastInvoked(reqs[1]).kind = "route"
    /\ getContext # OwnContext(reqs[1])

-----------------------------------------------------------------------------
(* Claims about the registry as a whole, checked under SpecInbound. A      *)
(* connection's id is its position in the sequence of accepted             *)
(* connections, so two connections never share an id, as with uuidv4().    *)

\* C34: the connections with an entry in the registry are those that have
\* been accepted and have not had their 'close' event, whether open or
\* closing; the priority and the keep list of a connection without an
\* entry are never written
C34_RegistryIsLiveConnections ==
    /\ [](\A i \in 1..Len(connections) :
              /\ connections[i].registered <=> ~Closed(connections[i])
              /\ connections[i].registered
                     <=> connections[i].readyState \in {"OPEN", "CLOSING"})
    /\ [][\A i \in 1..Len(connections) :
              ~connections[i].registered =>
                  /\ connections'[i].priority = connections[i].priority
                  /\ connections'[i].keep = connections[i].keep
                  /\ ~connections'[i].registered]_vars

\* a connection subscribed and closed, and its entry is gone, while a
\* closing connection that subscribed later has its entry
C34_Witness ==
    /\ Len(connections) = 2
    /\ Closed(connections[1])
    /\ connections[1].keep.def
    /\ ~connections[1].registered
    /\ connections[2].readyState = "CLOSING"
    /\ connections[2].keep.def
    /\ connections[2].registered

-----------------------------------------------------------------------------
(* SpecValidate: '/login/:id' is registered with a rule that a path        *)
(* segment fails (number) or passes (string), and '/login/42' without      *)
(* rules, under GET or ALL and under the versions '' and v1; the requests  *)
(* are GET and POST /login/42                                              *)

RuleDeclarations ==
    {[path |-> PathLoginId, paramRules |-> Some(<< <<Id, "number">> >>)],
     [path |-> PathLoginId, paramRules |-> Some(<< <<Id, "string">> >>)],
     [path |-> PathLogin42, paramRules |-> None]}

DoRegisterRules ==
    /\ Registrations(routes) < MaxRoutes
    /\ \E method \in {"GET", "ALL"}, d \in RuleDeclarations :
           Register(method, d.path, EmptyStr, d.paramRules)
    /\ UNCHANGED <<matchVars, sendVars, socketVars, builderVars, authVars, contextVars>>

DoArriveValidate ==
    /\ Len(reqs) < MaxReqs
    /\ \E method \in {"GET", "POST"} :
           Arrive(method, PathLogin42, None, Undefined, "ip1")
    /\ UNCHANGED <<matchVars, sendVars, socketVars, builderVars, authVars>>

NextValidate ==
    \/ DoRegisterRules
    \/ DoSetVersionAll
    \/ DoArriveValidate

SpecValidate == InitAll /\ [][NextValidate]_vars

\* the registrations whose rules the validator is to apply to r: those of
\* r's method whose template the matcher fits to r's path
Applicable(r) ==
    {e \in EntriesBefore(r) :
        /\ e.method = r.method
        /\ matchRoute(e.info.pattern, r.url).def
        /\ e.info.paramRules.def}

\* a parameter bound for r by the template of e fails a rule of e
FailsRule(e, r) ==
    LET params == matchRoute(e.info.pattern, r.url).val
        rules == e.info.paramRules.val
    IN  \E i \in 1..Len(rules) :
            ~validateParamType(Lookup(params, rules[i][1]), rules[i][2])

\* the validator has answered r
RejectedByValidator(r) ==
    /\ r.res.ended
    /\ r.res.statusCode = 400
    /\ r.res.body.text = "Invalid param type for "
    /\ LastInvoked(r).kind = "validateParams"

\* C35: the validator rejects a request exactly when a registration of the
\* request's method whose template fits the path has a rule that fails;
\* registrations under ALL and the registration selected for dispatch
\* have no part in it
C35_ValidatorAppliesSameMethodRules ==
    \A n \in 1..Len(reqs) :
        RejectedByValidator(reqs[n])
            <=> \E e \in Applicable(reqs[n]) : FailsRule(e, reqs[n])

\* a request dispatched to the handler of '/login/42' was rejected for the
\* rule of another registration
C35_Witness ==
    /\ Len(reqs) = 1
    /\ Final(reqs[1]).kind = "route"
    /\ RejectedByValidator(reqs[1])
    /\ \E e \in EntriesBefore(reqs[1]) :
           e.info.handler = Final(reqs[1]) /\ ~e.info.paramRules.def

\* a request whose path fits a template registered under ALL with a rule
\* that fails has passed the validator
C35_WitnessAll ==
    /\ Len(reqs) = 1
    /\ ~RejectedByValidator(reqs[1])
    /\ \E e \in EntriesBefore(reqs[1]) :
           /\ e.method = "ALL"
           /\ matchRoute(e.info.pattern, reqs[1].url).def
           /\ e.info.paramRules.def
           /\ FailsRule(e, reqs[1])

-----------------------------------------------------------------------------
(* SpecDenied: the rate limiter with maxRequests 0 together with an access *)
(* list, an empty store, and requests of the remote address ip1, all       *)
(* within one window, that carry no x-forwarded-for header, an empty one,  *)
(* or one with the value ip2. Only the list the configured gate reads is   *)
(* filled.                                                                 *)

DeniedConfig(mode) == Config(V1, FALSE, TRUE, 0, 2, TRUE, "UNSET", mode)

InitDenied ==
    /\ \E mode \in {"BLACKLIST", "WHITELIST"} :
           /\ config = DeniedConfig(mode)
           /\ middleware = ConstructorMiddleware(DeniedConfig(mode))
    /\ routes = addRoute(<<>>, DeniedConfig("NONE"), "GET", PathTest,
                         RouteHandler(1),
                         [apiVersion |-> EmptyStr, paramRules |-> None])
    /\ blacklist = {}
    /\ whitelist = {}
    /\ reqs = <<>>
    /\ store = <<>>
    /\ now = 0
    /\ MatcherIdle
    /\ ResponderIdle
    /\ SocketsIdle
    /\ BuildersIdle
    /\ DevicesIdle
    /\ ContextIdle

DoArriveDenied ==
    /\ Len(reqs) < MaxFlights
    /\ \E fwd \in {Undefined, "", "ip2"} :
           Arrive("GET", PathTest, None, fwd, "ip1")
    /\ UNCHANGED <<matchVars, sendVars, socketVars, builderVars, authVars>>

DoBlackListDenied ==
    /\ config.ipGateMethod = "BLACKLIST"
    /\ \E ip \in {"ip1", "ip2"} : blackListUser(ip)
    /\ UNCHANGED <<matchVars, sendVars, socketVars, builderVars, authVars, contextVars>>

DoWhiteListDenied ==
    /\ config.ipGateMethod = "WHITELIST"
    /\ \E ip \in {"ip1", "ip2"} : whiteListUser(ip)
    /\ UNCHANGED <<matchVars, sendVars, socketVars, builderVars, authVars, contextVars>>

NextDenied ==
    \/ DoBlackListDenied
    \/ DoWhiteListDenied
    \/ DoArriveDenied
    \/ DoFindDone
    \/ DoInsertDone

SpecDenied == InitDenied /\ [][NextDenied]_vars

\* the gate has answered r with 401
Denied(r) ==
    /\ r.res.ended
    /\ r.res.statusCode = 401
    /\ LastInvoked(r).kind = "ipGate"

\* the records of the store that carry the identity ip
StoredFor(ip) == {k \in 1..Len(store) : store[k].ip = ip}

\* the requests of the identity ip that the gate has answered with 401
DeniedOf(ip) ==
    {n \in 1..Len(reqs) : ClientIp(reqs[n]) = ip /\ Denied(reqs[n])}

\* C36: a request the gate has answered with 401 has passed the rate
\* limiter and its record is in the store, so that an identity has at least
\* as many records as requests denied
C36_DeniedRequestsAreCounted ==
    /\ \A n \in 1..Len(reqs) :
           Denied(reqs[n])
           => /\ PassedLimiter(reqs[n])
              /\ \E k \in 1..Len(store) : store[k] = reqs[n].doc
    /\ \A ip \in {"ip1", "ip2"} :
           Cardinality(StoredFor(ip)) >= Cardinality(DeniedOf(ip))

\* a request was denied with 401 and the next request of the same identity,
\* within the window, was answered 429 for the record the denied one left
C36_Witness ==
    /\ Len(reqs) = 2
    /\ Denied(reqs[1])
    /\ Limited(reqs[2])
    /\ ClientIp(reqs[1]) = ClientIp(reqs[2])
    /\ Len(store) = 1

\* the identity of r as the value of its x-forwarded-for header whenever it
\* carries one
HeaderIfCarried(r) == IF r.fwd # Undefined THEN r.fwd ELSE r.remote

\* the identity of r as the value of its x-forwarded-for header whenever it
\* carries one that is not empty
HeaderIfNotEmpty(r) ==
    IF r.fwd # Undefined /\ r.fwd # "" THEN r.fwd ELSE r.remote

\* the rate limiter counts r under Identity(r): the record it stores for r
\* carries that identity, and it answers 429 only where a record of that
\* identity is stored
CountedAs(Identity(_)) ==
    \A n \in 1..Len(reqs) :
        /\ PassedLimiter(reqs[n]) => reqs[n].doc.ip = Identity(reqs[n])
        /\ Limited(reqs[n]) => StoredFor(Identity(reqs[n])) # {}

\* the gate runs for the n-th request in this step
GateRuns(n) ==
    /\ n \in 1..Len(reqs')
    /\ GateReached(reqs'[n])
    /\ (n \in 1..Len(reqs) => ~GateReached(reqs[n]))

\* the gate answers 401 or calls next() by Identity(r) and the list that the
\* configured mode reads
GatedAs(Identity(_)) ==
    \A n \in 1..Len(reqs') :
        GateRuns(n)
        => (Denied(reqs'[n])
               <=> IF config.ipGateMethod = "BLACKLIST"
                   THEN Identity(reqs'[n]) \in blacklist
                   ELSE Identity(reqs'[n]) \notin whitelist)

\* C37 as claimed: the rate limiter and the gate identify the client by the
\* value of x-forwarded-for whenever the request carries the header, and by
\* the remote address only otherwise
C37_IdentityIsHeaderIfCarried ==
    []CountedAs(HeaderIfCarried) /\ [][GatedAs(HeaderIfCarried)]_vars

\* C37: the rate limiter and the gate identify the client by the value of
\* x-forwarded-for when the request carries the header with a value that is
\* not empty, and by the remote address otherwise; two requests of one
\* remote address that differ in that value are different clients
C37_IdentityIsHeaderIfNotEmpty ==
    []CountedAs(HeaderIfNotEmpty) /\ [][GatedAs(HeaderIfNotEmpty)]_vars

\* two requests of the remote address ip1, of which the second carries the
\* header with the value ip2: each left a record although maxRequests is 0,
\* the first was denied and the second was not
C37_Witness ==
    /\ Len(reqs) = 2
    /\ reqs[1].fwd = Undefined /\ reqs[2].fwd = "ip2"
    /\ reqs[1].remote = reqs[2].remote
    /\ Denied(reqs[1])
    /\ GateCalledNext(reqs[2])
    /\ StoredFor("ip1") # {} /\ StoredFor("ip2") # {}

\* a request that carries the header with the empty value was counted and
\* denied as the remote address
C37_WitnessEmptyHeader ==
    /\ Len(reqs) = 1
    /\ reqs[1].fwd = ""
    /\ Denied(reqs[1])
    /\ reqs[1].doc.ip = reqs[1].remote
    /\ blacklist = {reqs[1].remote}

-----------------------------------------------------------------------------
(* Claims about routes across changes of the version, checked under        *)
(* SpecVersion                                                             *)

\* the registrations a request for urlPath with a method can select while
\* the version v is active
UnderVersion(rt, v, method, urlPath) ==
    {e \in Entries(rt) :
        e.key = v \o urlPath /\ e.method \in {method, "ALL"}}

\* the request the step receives is dispatched to one of the registrations
\* in es
DispatchedTo(es) == \E e \in es : e.info.handler = Final(Received)

\* the request the step receives is answered by the fallback
FallsBack ==
    /\ Final(Received) = routeFallback
    /\ Received.res.ended
    /\ Received.res.statusCode = 400

\* C38 as claimed: a request is dispatched to a registration of its path
\* under the version active when it arrives, whatever the version was in
\* between, and gets the fallback's 400 when there is none under that
\* version
C38_RouteResolvesUnderItsVersion ==
    [][ Receives =>
          LET es == UnderVersion(routes, config.apiVersion,
                                 Received.method, Received.url)
          IN  IF es = {} THEN FallsBack ELSE DispatchedTo(es) ]_vars

\* C38 where it holds: the same, for an active version that is not empty;
\* under the empty version the fallback answers
C38_RouteResolvesUnderNonEmptyVersion ==
    [][ Receives =>
          LET es == UnderVersion(routes, config.apiVersion,
                                 Received.method, Received.url)
          IN  IF es = {} \/ config.apiVersion = EmptyStr
              THEN FallsBack
              ELSE DispatchedTo(es) ]_vars

\* a route is registered under v1 alone, and a request for its path is
\* answered by the fallback since the version is now v2
C38_Witness ==
    /\ config.apiVersion = V2
    /\ Entries(routes) # {}
    /\ \A e \in Entries(routes) : e.key = V1 \o PathTest
    /\ Len(reqs) = 1
    /\ Final(reqs[1]) = routeFallback
    /\ reqs[1].res.statusCode = 400

\* a route is registered under the empty version alone, the version is the
\* empty one, and a request for its path is answered by the fallback
C38_WitnessEmptyVersion ==
    /\ config.apiVersion = EmptyStr
    /\ Entries(routes) # {}
    /\ \A e \in Entries(routes) : e.key = PathTest
    /\ Len(reqs) = 1
    /\ Final(reqs[1]) = routeFallback
    /\ reqs[1].res.statusCode = 400

-----------------------------------------------------------------------------
(* SpecBypass: the server of SpecChain with the address ip1 put on the     *)
(* black list at any time, and requests of ip1 for /test and for the       *)
(* static assets /app.js and /favicon.ico                                  *)

DoArriveBypass ==
    /\ Len(reqs) < MaxFlights
    /\ \E urlPath \in {PathTest, PathAppJs, PathFavicon} :
           Arrive("GET", urlPath, None, Undefined, "ip1")
    /\ UNCHANGED <<matchVars, sendVars, socketVars, builderVars, authVars>>

NextBypass ==
    \/ DoBlackList
    \/ DoArriveBypass
    \/ DoFindDone
    \/ DoInsertDone
    \/ DoBodyDone
    \/ DoStatics

SpecBypass == InitChain /\ [][NextBypass]_vars

\* r was answered by a route handler, by the fallback, or by the responder
\* of the static assets (no handler of a chain was invoked for it)
AnsweredByResponder(r) ==
    /\ r.res.ended
    /\ \/ LastInvoked(r).kind \in {"route", "fallback"}
       \/ r.trace = <<>>

\* the rate limiter and the gate have both called next() for r
PassedLimiterAndGate(r) == PassedLimiter(r) /\ GateCalledNext(r)

\* C39 as claimed: whatever its path, a request answered by a route
\* handler, the fallback or the responder of the static assets has passed
\* the rate limiter and the access gate
C39_NoAnswerBeforeChain ==
    \A n \in 1..Len(reqs) :
        AnsweredByResponder(reqs[n]) => PassedLimiterAndGate(reqs[n])

\* C39 where it holds: a request whose path names no static asset is
\* answered by a route handler or the fallback only after it has passed the
\* rate limiter and the gate; for a request whose path names a static
\* asset no handler of the chain is ever invoked
C39_NoAnswerBeforeChainUnlessStatic ==
    \A n \in 1..Len(reqs) :
        IF IsDashboardStatic(reqs[n].url)
        THEN reqs[n].trace = <<>> /\ reqs[n].chain = <<>>
        ELSE AnsweredByResponder(reqs[n]) => PassedLimiterAndGate(reqs[n])

\* a request for /test was answered by its route handler after the rate
\* limiter and the gate
C39_Witness ==
    /\ Len(reqs) >= 1
    /\ reqs[1].url = PathTest
    /\ reqs[1].res.ended
    /\ LastInvoked(reqs[1]).kind = "route"
    /\ PassedLimiterAndGate(reqs[1])

\* the address ip1 is on the black list and has a record in the store
\* within the window, with maxRequests 0; its request for /app.js was
\* answered with the file
C39_WitnessStatic ==
    /\ Len(reqs) >= 1
    /\ reqs[1].url = PathAppJs
    /\ ClientIp(reqs[1]) \in blacklist
    /\ StoredFor(ClientIp(reqs[1])) # {}
    /\ reqs[1].res.ended
    /\ reqs[1].res.statusCode = 200

=============================================================================
